---------------------------- MODULE Spec2Model ----------------------------
(*
  A model of the scan -> analyze -> patch -> validate -> persist pipeline of
  the auto-fix agent (src/src/agent.py, analyzer.py, fixer.py, scanner.py,
  utils.py).

  Text.  A Python str is a sequence of chunks; the str is the concatenation
  of its chunks.  A chunk is a TLA+ string: a single white-space character,
  the line break "\n", a single punctuation character, or a run of word
  characters.  Substring tests of the
  code ('== None' in line) are containment of a chunk sequence; the texts the
  model starts from are chunked finely enough that every pattern of the code
  begins and ends at chunk borders.  len() counts characters.
*)
EXTENDS Integers, Sequences, FiniteSets, TLC

VARIABLES
    fs,         \* path -> content (a str) of every file on disk
    perm,       \* path -> "rw" | "r" (write raises) | "none" (open raises)
    pc,         \* position of AutoFixAgent.run
    auto_fix,   \* argument of the current run
    files,      \* agent.py:38-44, the list _scan_files iterates
    idx,        \* loop position, in files or in files_to_fix
    results,    \* agent.py:46, the dict run returns
    files_to_fix, \* agent.py:84
    fix_results,  \* agent.py:85
    calls,      \* history: every Analyzer.analyze call of this agent
    log,        \* history of the current run: file operations performed
    fs0,        \* history: fs when the current run started
    budget,     \* the calls of run and changes of permissions still to come
    vf,         \* the pure-function harness (validate_fix)
    frame       \* the call of a helper in progress (write_file, ...): its locals

vars == <<fs, perm, pc, auto_fix, files, idx, results, files_to_fix,
          fix_results, calls, log, fs0, budget, vf, frame>>

-----------------------------------------------------------------------------
(* Strings *)

RECURSIVE SumLen(_)
\* The chunk that stands for a run of BigRun filler characters 'x', and the
\* chunk that stands for the expression 1+1+...+1 of 50,000 terms, which
\* ast.parse gives up on with a RecursionError.
BigChunk == "<x*500000>"
BigRun == 500000
DeepChunk == "<1+1+...+1>"
\* the chunk that stands for the three backquotes of a code fence
FenceChunk == "<fence>"
ChunkLen(c) ==
    IF c = BigChunk THEN BigRun ELSE IF c = DeepChunk THEN 99999
    ELSE IF c = FenceChunk THEN 3 ELSE Len(c)
\* len(s)
SumLen(s) == IF s = <<>> THEN 0 ELSE ChunkLen(Head(s)) + SumLen(Tail(s))
StrLen(s) == SumLen(s)

\* str.strip() / lstrip() / rstrip() with no argument: white space
WS == {" ", "\t", "\n", "\r"}
RECURSIVE LStrip(_)
LStrip(s) == IF s # <<>> /\ Head(s) \in WS THEN LStrip(Tail(s)) ELSE s
RECURSIVE RStrip(_)
RStrip(s) ==
    IF s # <<>> /\ s[Len(s)] \in WS THEN RStrip(SubSeq(s, 1, Len(s) - 1)) ELSE s
Strip(s) == LStrip(RStrip(s))

\* s[i:].startswith(p), i 1-based
MatchAt(s, p, i) ==
    /\ i + Len(p) - 1 <= Len(s)
    /\ \A k \in 1..Len(p) : s[i + k - 1] = p[k]
\* p in s
Contains(s, p) == \E i \in 1..(Len(s) - Len(p) + 1) : MatchAt(s, p, i)
StartsWith(s, p) == MatchAt(s, p, 1)
EndsWith(s, p) == Len(p) <= Len(s) /\ MatchAt(s, p, Len(s) - Len(p) + 1)
\* s.find(p), 1-based; 0 when absent (Python's -1)
Find(s, p) ==
    IF Contains(s, p)
    THEN CHOOSE i \in 1..(Len(s) - Len(p) + 1) :
            /\ MatchAt(s, p, i)
            /\ \A j \in 1..(i - 1) : ~MatchAt(s, p, j)
    ELSE 0

\* s.replace(p, r): every non-overlapping occurrence, left to right
RECURSIVE ReplaceFrom(_, _, _, _)
ReplaceFrom(s, p, r, i) ==
    IF i > Len(s) THEN <<>>
    ELSE IF MatchAt(s, p, i) THEN r \o ReplaceFrom(s, p, r, i + Len(p))
    ELSE <<s[i]>> \o ReplaceFrom(s, p, r, i + 1)
Replace(s, p, r) == ReplaceFrom(s, p, r, 1)
\* s.replace(p, r, 1)
ReplaceFirst(s, p, r) ==
    LET i == Find(s, p) IN
    IF i = 0 THEN s
    ELSE SubSeq(s, 1, i - 1) \o r \o SubSeq(s, i + Len(p), Len(s))

\* ' ' * n
RECURSIVE Spaces(_)
Spaces(n) == IF n <= 0 THEN <<>> ELSE <<" ">> \o Spaces(n - 1)

\* s.split('\n'): never empty, '' gives ['']
RECURSIVE SplitFrom(_, _, _)
SplitFrom(s, i, cur) ==
    IF i > Len(s) THEN <<cur>>
    ELSE IF s[i] = "\n" THEN <<cur>> \o SplitFrom(s, i + 1, <<>>)
    ELSE SplitFrom(s, i + 1, Append(cur, s[i]))
Split(s) == SplitFrom(s, 1, <<>>)
\* '\n'.join(lines)
RECURSIVE Join(_)
Join(lines) ==
    IF lines = <<>> THEN <<>>
    ELSE IF Len(lines) = 1 THEN lines[1]
    ELSE lines[1] \o <<"\n">> \o Join(Tail(lines))

\* every str over alphabet A of at most n chunks
RECURSIVE StrsUpTo(_, _)
StrsUpTo(A, n) ==
    IF n = 0 THEN {<<>>}
    ELSE LET shorter == StrsUpTo(A, n - 1) IN
         shorter \cup {Append(s, c) : s \in {t \in shorter : Len(t) = n - 1}, c \in A}

-----------------------------------------------------------------------------
(* utils.py *)

\* validate_fix with the length guard off by one ('<=' for '<')
validate_fix_le(original_content, fixed_content) ==
    IF fixed_content = <<>> \/ Strip(fixed_content) = <<>> THEN FALSE
    ELSE IF 5 * StrLen(fixed_content) <= StrLen(original_content) THEN FALSE
    ELSE TRUE

\* utils.py:41-51.  len(fixed) < len(original) * 0.2 in IEEE doubles is
\* 5 * len(fixed) < len(original) for all lengths (0.2 rounds up by 2^-54
\* relative, less than half an ulp of any product n * 0.2 with 5 | n).
validate_fix(original_content, fixed_content) ==
    IF fixed_content = <<>> \/ Strip(fixed_content) = <<>> THEN FALSE
    ELSE IF 5 * StrLen(fixed_content) < StrLen(original_content) THEN FALSE
    ELSE TRUE

-----------------------------------------------------------------------------
(* Character windows over a str, in whole chunks *)

\* number of characters before chunk i
RECURSIVE OffsetOf(_, _)
OffsetOf(s, i) == IF i <= 1 THEN 0 ELSE OffsetOf(s, i - 1) + ChunkLen(s[i - 1])
\* s[a:b] for character offsets a <= b (0-based, b exclusive): the chunks that
\* lie wholly inside the window.  A chunk cut by a window border cannot take
\* part in a match of a pattern made of whole chunks.
Slice(s, a, b) ==
    LET inside == {i \in 1..Len(s) :
                      OffsetOf(s, i) >= a /\ OffsetOf(s, i) + ChunkLen(s[i]) <= b}
    IN  IF inside = {} THEN <<>>
        ELSE SubSeq(s, CHOOSE i \in inside : \A j \in inside : i <= j,
                       CHOOSE i \in inside : \A j \in inside : i >= j)
Max(a, b) == IF a >= b THEN a ELSE b
Min(a, b) == IF a <= b THEN a ELSE b
\* content.find(line) as a character offset (-1 when absent)
FindOffset(content, line) ==
    LET i == Find(content, line) IN IF i = 0 THEN -1 ELSE OffsetOf(content, i)

\* str.lower(), chunk by chunk
LowerChunk(c) ==
    CASE c = "A" -> "a"
      [] c = "API" -> "api"
      [] c = "Add" -> "add"
      [] c = "Assignment" -> "assignment"
      [] c = "Auto" -> "auto"
      [] c = "Avoid" -> "avoid"
      [] c = "B" -> "b"
      [] c = "Bare" -> "bare"
      [] c = "CSS" -> "css"
      [] c = "Class" -> "class"
      [] c = "Comparing" -> "comparing"
      [] c = "Connection" -> "connection"
      [] c = "Database" -> "database"
      [] c = "Deprecated" -> "deprecated"
      [] c = "Done" -> "done"
      [] c = "Duplicate" -> "duplicate"
      [] c = "Empty" -> "empty"
      [] c = "Errno" -> "errno"
      [] c = "Error" -> "error"
      [] c = "Exception" -> "exception"
      [] c = "FIXME" -> "fixme"
      [] c = "Failed" -> "failed"
      [] c = "False" -> "false"
      [] c = "File" -> "file"
      [] c = "Flask" -> "flask"
      [] c = "Function" -> "function"
      [] c = "GET" -> "get"
      [] c = "Generic" -> "generic"
      [] c = "HACK" -> "hack"
      [] c = "HEAD" -> "head"
      [] c = "HTML" -> "html"
      [] c = "HTTP" -> "http"
      [] c = "Handle" -> "handle"
      [] c = "Hardcoded" -> "hardcoded"
      [] c = "Here" -> "here"
      [] c = "Image" -> "image"
      [] c = "ImplementedError" -> "implementederror"
      [] c = "Import" -> "import"
      [] c = "Indentation" -> "indentation"
      [] c = "KEY" -> "key"
      [] c = "Log" -> "log"
      [] c = "M" -> "m"
      [] c = "Makefile" -> "makefile"
      [] c = "Module" -> "module"
      [] c = "Move" -> "move"
      [] c = "Mutable" -> "mutable"
      [] c = "None" -> "none"
      [] c = "Not" -> "not"
      [] c = "PK" -> "pk"
      [] c = "POST" -> "post"
      [] c = "Perm" -> "perm"
      [] c = "Pickle" -> "pickle"
      [] c = "Potential" -> "potential"
      [] c = "README" -> "readme"
      [] c = "Refactor" -> "refactor"
      [] c = "Remove" -> "remove"
      [] c = "Replace" -> "replace"
      [] c = "Return" -> "return"
      [] c = "SECURITY" -> "security"
      [] c = "SQL" -> "sql"
      [] c = "SSL" -> "ssl"
      [] c = "Str" -> "str"
      [] c = "TODO" -> "todo"
      [] c = "Trailing" -> "trailing"
      [] c = "True" -> "true"
      [] c = "Use" -> "use"
      [] c = "ValueError" -> "valueerror"
      [] c = "XSS" -> "xss"
      [] c = "innerHTML" -> "innerhtml"
      [] c = "textContent" -> "textcontent"
      [] OTHER -> c
Lower(s) == [i \in 1..Len(s) |-> LowerChunk(s[i])]

\* Punctuation is chunked one character per chunk ('==' is "=", "="), so that
\* '==' is found inside '===' as the code finds it.  These are the chunks
\* that are not made of word characters [A-Za-z0-9_].
NonWord == WS \cup
    {"=", "!", "+", "-", "<", ">", "(", ")", "[", "]", "{", "}", ":", ",",
     ".", "#", "\"", "'", "%", "*", "@", "/", ";", "?", BigChunk, DeepChunk}
IsWord(c) == c \notin NonWord
\* s.replace(' ', '')
RemoveSpaces(s) == SelectSeq(s, LAMBDA c : c # " ")
EndsWithBlank(s) == s # <<>> /\ s[Len(s)] \in {" ", "\t"}
\* len(line) - len(line.lstrip())
Indent(line) == StrLen(line) - StrLen(LStrip(line))

-----------------------------------------------------------------------------
(* analyzer.py: the structured view.  ast.parse and the tree walk are the
   interpreter's; they are modelled on the statement forms of the texts the
   model works on: one statement per line, blocks by indentation, headers
   if / while / for / def / class / with / try / except / else / finally. *)

Issue(type, message, line) == [type |-> type, message |-> message, line |-> line]
Opt(cond, x) == IF cond THEN <<x>> ELSE <<>>
RECURSIVE Flatten(_)
Flatten(ss) == IF ss = <<>> THEN <<>> ELSE Head(ss) \o Flatten(Tail(ss))

\* a line the tokenizer turns into a statement: not blank, not a comment
IsStmt(line) == Strip(line) # <<>> /\ ~StartsWith(Strip(line), <<"#">>)
\* the line without its trailing comment
CodePart(line) ==
    LET h == Find(line, <<"#">>) IN
    RStrip(IF h = 0 THEN line ELSE SubSeq(line, 1, h - 1))
IsHeader(line) == LET c == CodePart(line) IN c # <<>> /\ c[Len(c)] = ":"
\* the number of chunks of s equal to ch
Count(s, ch) == Cardinality({i \in 1..Len(s) : s[i] = ch})
\* the words that open a compound statement, which needs its ':'
CompoundKeywords == {<<"if">>, <<"while">>, <<"for">>, <<"def">>, <<"class">>, <<"try">>, <<"except">>, <<"else">>, <<"with">>}
\* token sequences no statement of the grammar holds
Malformed(line) ==
    LET c == Strip(CodePart(line)) IN
    \/ Contains(c, <<"(", ":">>)
    \/ Contains(c, <<"=", "=", "=">>)
    \/ Contains(c, <<"!", "=", "=">>)
    \/ \E i \in 1..Len(c) : c[i] = "?"
    \/ Count(c, "(") # Count(c, ")")
    \/ Count(c, "\"") % 2 = 1
    \/ /\ \E k \in CompoundKeywords : c = k \/ StartsWith(c, k \o <<" ">>) \/ StartsWith(c, k \o <<":">>)
       /\ Count(c, ":") = 0
    \/ /\ StartsWith(c, <<"if", " ">>) \/ StartsWith(c, <<"while", " ">>)
       /\ \E i \in 2..(Len(c) - 1) :
            /\ c[i] = "=" /\ c[i + 1] # "=" /\ c[i - 1] \notin {"=", "!", "<", ">"}
            /\ \A j \in 1..i : c[j] # "("
RECURSIVE PopTo(_, _)
PopTo(stack, ind) ==
    IF Len(stack) > 1 /\ stack[Len(stack)] > ind
    THEN PopTo(SubSeq(stack, 1, Len(stack) - 1), ind) ELSE stack
ParseOk == [kind |-> "ok", lineno |-> 0]
ParseError(kind, lineno) == [kind |-> kind, lineno |-> lineno]
RECURSIVE ParseScan(_, _, _, _)
ParseScan(lines, i, stack, expect) ==
    IF i > Len(lines)
    THEN IF expect
         THEN ParseError("IndentationError",
                         IF lines[Len(lines)] = <<>> THEN Len(lines) - 1 ELSE Len(lines))
         ELSE ParseOk
    ELSE IF ~IsStmt(lines[i]) THEN ParseScan(lines, i + 1, stack, expect)
    ELSE LET ind == Indent(lines[i])
             top == stack[Len(stack)]
             st  == IF ind > top THEN Append(stack, ind) ELSE PopTo(stack, ind)
         IN  IF expect /\ ind <= top THEN ParseError("IndentationError", i)
             ELSE IF ~expect /\ ind > top THEN ParseError("IndentationError", i)
             ELSE IF st[Len(st)] # ind THEN ParseError("IndentationError", i)
             ELSE IF Malformed(lines[i]) THEN ParseError("SyntaxError", i)
             ELSE ParseScan(lines, i + 1, st, IsHeader(lines[i]))
\* ast.parse(content): "ok", or the exception raised and its e.lineno
ast_parse(content) ==
    IF \E i \in 1..Len(content) : content[i] = DeepChunk
    THEN ParseError("RecursionError", 0)
    ELSE ParseScan(Split(content), 1, <<0>>, FALSE)

\* the header line that opens the block of statement line i (0: module level)
ParentOf(lines, i) ==
    LET above == {j \in 1..(i - 1) :
                    IsStmt(lines[j]) /\ Indent(lines[j]) < Indent(lines[i])}
    IN  IF above = {} THEN 0 ELSE CHOOSE j \in above : \A k \in above : k <= j
\* depth of the statement node of line i below the Module node: a handler's
\* body lies under Try -> ExceptHandler
RECURSIVE NodeDepth(_, _)
NodeDepth(lines, i) ==
    LET par == ParentOf(lines, i) IN
    IF par = 0 THEN 1
    ELSE NodeDepth(lines, par)
         + (IF StartsWith(Strip(lines[par]), <<"except">>) THEN 1 ELSE 0)
         + (IF StartsWith(Strip(lines[i]), <<"except">>) THEN 0 ELSE 1)
\* the name in 'def name(...)'
DefName(line) ==
    LET c == Strip(line)
        open == Find(c, <<"(">>)
    IN  IF open = 0 THEN <<>> ELSE SubSeq(c, 3, open - 1)
\* analyzer.py:176-183: a FunctionDef whose body is one Pass
IsEmptyFunction(lines, i) ==
    LET c == CodePart(Strip(lines[i]))
        body == {j \in (i + 1)..Len(lines) : IsStmt(lines[j]) /\
                    \A k \in (i + 1)..j : IsStmt(lines[k]) => Indent(lines[k]) > Indent(lines[i])}
    IN  /\ StartsWith(c, <<"def", " ">>)
        /\ \/ /\ ~IsHeader(lines[i])
              /\ Len(c) >= 3
              /\ SubSeq(c, Len(c) - 2, Len(c)) = <<":", " ", "pass">>
           \/ /\ IsHeader(lines[i])
              /\ Cardinality(body) = 1
              /\ \A j \in body : CodePart(Strip(lines[j])) = <<"pass">>
\* analyzer.py:186-197: the handlers of one Try that repeat an earlier type
HandlerType(line) ==
    LET c == CodePart(Strip(line)) IN
    IF StartsWith(c, <<"except", " ">>) /\ Len(c) >= 4 THEN SubSeq(c, 3, Len(c) - 1) ELSE <<>>
HandlersOf(lines, t) ==
    {j \in (t + 1)..Len(lines) :
        /\ IsStmt(lines[j]) /\ Indent(lines[j]) = Indent(lines[t])
        /\ StartsWith(Strip(lines[j]), <<"except">>)
        /\ \A k \in (t + 1)..j :
              (IsStmt(lines[k]) /\ Indent(lines[k]) <= Indent(lines[t]))
                 => StartsWith(Strip(lines[k]), <<"except">>)}
IsDuplicateHandler(lines, t, j) ==
    /\ j \in HandlersOf(lines, t)
    /\ HandlerType(lines[j]) # <<>>
    /\ \E k \in HandlersOf(lines, t) : k < j /\ HandlerType(lines[k]) = HandlerType(lines[j])
\* analyzer.py:200-208: the '== True' / '== False' comparisons of a line, in
\* source order; the Compare node lies below a BoolOp or UnaryOp when the
\* line holds 'and', 'or' or 'not'
BoolLiteralAt(c, i) ==
    /\ MatchAt(c, <<"=", "=">>, i)
    /\ (i = 1 \/ c[i - 1] \notin {"=", "!", "<", ">"})
    /\ LET rest == LStrip(SubSeq(c, i + 2, Len(c))) IN
          rest # <<>> /\ rest[1] \in {"True", "False"}
BoolCompares(line) ==
    LET c == CodePart(line)
        at == {i \in 1..Len(c) : BoolLiteralAt(c, i)}
    IN  [n \in 1..Cardinality(at) |->
            LET i == CHOOSE x \in at : Cardinality({y \in at : y < x}) = n - 1
            IN  LStrip(SubSeq(c, i + 2, Len(c)))[1]]
CompareOffset(line) ==
    IF Contains(line, <<" ", "and", " ">>) \/ Contains(line, <<" ", "or", " ">>) \/ Contains(line, <<"not", " ">>)
    THEN 2 ELSE 1
\* what the visit of the nodes of line i at depth d appends
NodeIssues(lines, i, d) ==
    IF ~IsStmt(lines[i]) THEN <<>>
    ELSE
      Opt(d = NodeDepth(lines, i) /\ IsEmptyFunction(lines, i),
          Issue("EmptyFunction", <<"Empty", " ", "function", ":", " ">> \o DefName(lines[i]), i))
      \o (IF d = NodeDepth(lines, i) /\ CodePart(Strip(lines[i])) = <<"try", ":">>
          THEN Flatten([j \in 1..Len(lines) |->
                  Opt(IsDuplicateHandler(lines, i, j),
                      Issue("DuplicateException",
                            <<"Duplicate", " ", "exception", " ", "handler", ":", " ">> \o HandlerType(lines[j]), j))])
          ELSE <<>>)
      \o (IF d = NodeDepth(lines, i) + CompareOffset(lines[i])
          THEN [n \in 1..Len(BoolCompares(lines[i])) |->
                  Issue("ComparisonBug",
                        <<"Comparing", " ", "with", " ">> \o <<BoolCompares(lines[i])[n]>> \o <<" ", "-", " ", "use", " ", "\"", "is", "\"", " ", "instead">>,
                        i)]
          ELSE <<>>)
\* analyzer.py:170-210, ast.walk being breadth first: level by level, each
\* level in source order
MaxDepth(lines) == Len(lines) + 3
_analyze_ast(lines) ==
    Flatten([d \in 1..MaxDepth(lines) |->
        Flatten([i \in 1..Len(lines) |-> NodeIssues(lines, i, d)])])

-----------------------------------------------------------------------------
(* analyzer.py: the lexical layer *)

\* content[max(0, p):min(len(content), p + n)] with p = content.find(line)
WindowAfter(content, line, n) ==
    LET p == FindOffset(content, line) IN
    Slice(content, Max(0, p), Min(StrLen(content), p + n))
\* content[max(0, p - n):p]; for p - n < 0 <= p the slice starts at 0
WindowBefore(content, line, n) ==
    LET p == FindOffset(content, line) IN Slice(content, Max(0, p - n), p)
\* content[:content.find(line)]
Before(content, line) == Slice(content, 0, FindOffset(content, line))

\* re.search(r'\bif\s+\w+\s*=\s*[^=]', line), analyzer.py:154; with is_fix the
\* pattern of fixer.py:166, r'(if\s+\w+)\s*=\s*([^=])', which has no \b.
\* The result is <<start of 'if', end of \w+, index of '='>>, <<>> for no match.
RECURSIVE SkipWS(_, _)
SkipWS(s, i) == IF i <= Len(s) /\ s[i] \in WS THEN SkipWS(s, i + 1) ELSE i
RECURSIVE SkipWord(_, _)
SkipWord(s, i) == IF i <= Len(s) /\ IsWord(s[i]) THEN SkipWord(s, i + 1) ELSE i
IfAssignAt(s, i, is_fix) ==
    LET w  == SkipWS(s, i + 1)
        e  == SkipWord(s, w)
        q  == SkipWS(s, e)
    IN  /\ s[i] = "if"
        /\ (is_fix \/ i = 1 \/ ~IsWord(s[i - 1]))
        /\ w > i + 1
        /\ e > w
        /\ q <= Len(s) /\ s[q] = "="
        /\ q + 1 <= Len(s) /\ s[q + 1] # "="
IfAssignMatch(s, is_fix) ==
    LET at == {i \in 1..Len(s) : IfAssignAt(s, i, is_fix)} IN
    IF at = {} THEN <<>>
    ELSE LET i == CHOOSE x \in at : \A y \in at : x <= y
             e == SkipWord(s, SkipWS(s, i + 1))
         IN  <<i, e - 1, SkipWS(s, e)>>

\* analyzer.py:64-166, the predicates of one line, in the code's order
PythonLineIssues(content, line, i) ==
    LET stripped == Strip(line)
        low == Lower(line)
    IN
    IF StartsWith(stripped, <<"#">>) THEN <<>>
    ELSE
       Opt(Contains(line, <<"eval", "(">>),
           Issue("SecurityIssue", <<"Avoid", " ", "using", " ", "eval", "(", ")", " ", "-", " ", "security", " ", "r", "is", "k">>, i))
    \o Opt(Contains(line, <<"exec", "(">>),
           Issue("SecurityIssue", <<"Avoid", " ", "using", " ", "exec", "(", ")", " ", "-", " ", "security", " ", "r", "is", "k">>, i))
    \o Opt(Contains(line, <<"pickle", ".", "load", "s", "(">>) \/ Contains(line, <<"pickle", ".", "load", "(">>),
           Issue("SecurityIssue", <<"Pickle", " ", "can", " ", "execute", " ", "arbitrary", " ", "code", " ", "-", " ", "use", " ", "json", " ", "instead">>, i))
    \o Opt(Contains(line, <<"shell", "=", "True">>),
           Issue("SecurityIssue", <<"shell", "=", "True", " ", "is", " ", "a", " ", "security", " ", "r", "is", "k", " ", "-", " ", "avoid", " ", "if", " ", "possible">>, i))
    \o Opt(Contains(low, <<"pass", "word">>) /\ (Contains(line, <<"print", "(">>) \/ Contains(low, <<"log">>)),
           Issue("SecurityIssue", <<"Potential", " ", "pass", "word", " ", "log", "ging", " ", "detected">>, i))
    \o Opt(Contains(low, <<"api_key">>) /\ Contains(line, <<"=">>) /\ Contains(line, <<"\"">>),
           Issue("SecurityIssue", <<"Hardcoded", " ", "API", " ", "key", " ", "detected">>, i))
    \o Opt(Contains(line, <<"TODO">>) \/ Contains(line, <<"FIXME">>) \/ Contains(line, <<"HACK">>),
           Issue("CodeQuality", <<"TODO", "/", "FIXME", " ", "comment", " ", "found", " ", "-", " ", "needs", " ", "implementation">>, i))
    \o Opt(Contains(line, <<".", "execute", "(">>) /\ Contains(line, <<"f", "\"">>),
           Issue("SecurityIssue", <<"SQL", " ", "injection", " ", "r", "is", "k", " ", "-", " ", "use", " ", "parameterized", " ", "queries">>, i))
    \o Opt(Contains(line, <<".", "execute", "(">>) /\ Contains(line, <<"%">>) /\ ~Contains(line, <<"format">>),
           Issue("SecurityIssue", <<"SQL", " ", "injection", " ", "r", "is", "k", " ", "-", " ", "use", " ", "parameterized", " ", "queries">>, i))
    \o Opt(Contains(line, <<"requests", ".", "get", "(">>) /\ Contains(line, <<"verify", "=", "False">>),
           Issue("SecurityIssue", <<"SSL", " ", "ver", "if", "ication", " ", "d", "is", "abled", " ", "-", " ", "security", " ", "r", "is", "k">>, i))
    \o Opt(Contains(line, <<"sleep", "(">>) /\ ~StartsWith(stripped, <<"#">>),
           Issue("PerformanceIssue", <<"sleep", "(", ")", " ", "call", " ", "may", " ", "block", " ", "-", " ", "consider", " ", "async", " ", "app", "roach">>, i))
    \o Opt(Contains(line, <<"cursor", ".", "execute">>)
             /\ ~Contains(WindowAfter(content, line, 500), <<"commit">>),
           Issue("DatabaseIssue", <<"M", "is", "sing", " ", "commit", "(", ")", " ", "after", " ", "execute", "(", ")", " ", "-", " ", "transaction", " ", "may", " ", "not", " ", "pers", "is", "t">>, i))
    \o Opt(~Contains(content, <<".", "close", "(", ")">>)
             /\ (Contains(line, <<"connect", "(">>) \/ Contains(line, <<"Connection", "(">>)),
           Issue("ResourceLeak", <<"Database", " ", "connection", " ", "not", " ", "close", "d", " ", "-", " ", "use", " ", "context", " ", "manager">>, i))
    \o Opt(Contains(line, <<"open", "(">>)
             /\ ~Contains(WindowAfter(content, line, 300), <<".", "close", "(", ")">>),
           Issue("ResourceLeak", <<"File", " ", "not", " ", "close", "d", " ", "-", " ", "use", " ", "\"", "with", "\"", " ", "statement">>, i))
    \o Opt((Contains(line, <<"@", "app", ".", "route">>) \/ Contains(line, <<"@", "router">>))
             /\ ~Contains(line, <<"methods", "=">>)
             /\ ~Contains(low, <<"get">>) /\ ~Contains(low, <<"post">>),
           Issue("APIIssue", <<"HTTP", " ", "method", " ", "not", " ", "spec", "if", "ied", " ", "for", " ", "route">>, i))
    \o Opt(Contains(stripped, <<"return", " ">>) /\ ~Contains(line, <<"jsonify">>)
             /\ Contains(Before(content, line), <<"@", "app">>)
             /\ (Contains(line, <<"dict">>) \/ Contains(line, <<"{">>)),
           Issue("APIIssue", <<"Return", " ", "dict", " ", "with", "out", " ", "jsonify", "(", ")", " ", "in", " ", "Flask", " ", "route">>, i))
    \o Opt(Contains(stripped, <<"try", ":">>)
             /\ LET p == FindOffset(content, line)
                    try_block == Slice(content, p, p + 500)
                IN  Contains(try_block, <<"except", " ", "Exception", ":">>) /\ Contains(try_block, <<"pass">>),
           Issue("ErrorHandling", <<"Empty", " ", "exception", " ", "handler", " ", "-", " ", "errors", " ", "silently", " ", "ignored">>, i))
    \o Opt(Contains(line, <<"raise", " ", "Exception", "(">>),
           Issue("ErrorHandling", <<"Generic", " ", "Exception", " ", "raise", "d", " ", "-", " ", "use", " ", "spec", "if", "ic", " ", "exception", " ", "type">>, i))
    \o Opt(Contains(line, <<"=", "=", " ", "None">>) /\ ~Contains(line, <<"is", " ", "None">>)
             /\ ~Contains(stripped, <<"#", " ">>),
           Issue("ComparisonBug", <<"Use", " ", "'", "is", " ", "None", "'", " ", "instead", " ", "of", " ", "'", "=", "=", " ", "None", "'">>, i))
    \o Opt(Contains(line, <<"!", "=", " ", "None">>) /\ ~Contains(line, <<"is", " ", "not", " ", "None">>)
             /\ ~Contains(stripped, <<"#", " ">>),
           Issue("ComparisonBug", <<"Use", " ", "'", "is", " ", "not", " ", "None", "'", " ", "instead", " ", "of", " ", "'", "!", "=", " ", "None", "'">>, i))
    \o Opt(stripped = <<"except", ":">>,
           Issue("BareExcept", <<"Bare", " ", "except", " ", "clause", " ", "-", " ", "spec", "if", "y", " ", "exception", " ", "type">>, i))
    \o Opt(Contains(stripped, <<"def", " ">>) /\ Contains(RemoveSpaces(line), <<"=", "[", "]">>),
           Issue("MutableDefault", <<"Mutable", " ", "def", "ault", " ", "argument", " ", "[", "]", " ", "-", " ", "use", " ", "None", " ", "instead">>, i))
    \o Opt(Contains(stripped, <<"def", " ">>) /\ Contains(RemoveSpaces(line), <<"=", "{", "}">>),
           Issue("MutableDefault", <<"Mutable", " ", "def", "ault", " ", "argument", " ", "{", "}", " ", "-", " ", "use", " ", "None", " ", "instead">>, i))
    \o Opt(Contains(line, <<"type", "(">>) /\ Contains(line, <<")", " ", "=", "=">>)
             /\ ~Contains(line, <<"is", "instance">>),
           Issue("TypeCheckBug", <<"Use", " ", "is", "instance", "(", ")", " ", "instead", " ", "of", " ", "type", "(", ")", " ", "=", "=">>, i))
    \o Opt(IfAssignMatch(line, FALSE) # <<>> /\ ~Contains(line, <<":", "=">>),
           Issue("AssignmentInCondition", <<"Assignment", " ", "in", " ", "condition", " ", "-", " ", "did", " ", "you", " ", "mean", " ", "=", "=", " ", "?">>, i))
    \o Opt(Contains(line, <<"import", " ", "*">>),
           Issue("ImportIssue", <<"Avoid", " ", "wildcard", " ", "import", "s", " ", "-", " ", "import", " ", "spec", "if", "ic", " ", "names">>, i))
    \o Opt(Contains(line, <<"+", "=">>) /\ Contains(low, <<"str">>)
             /\ Contains(WindowBefore(content, line, 100), <<"for", " ">>),
           Issue("PerformanceIssue", <<"Str", "ing", " ", "concatenation", " ", "in", " ", "loop", " ", "-", " ", "use", " ", "join", "(", ")", " ", "instead">>, i))
    \o Opt(line # <<>> /\ EndsWithBlank(line),
           Issue("StyleIssue", <<"Trailing", " ", "whitespace">>, i))

\* analyzer.py:37-168.  raised: an exception other than SyntaxError left
\* ast.parse (analyze catches it, analyzer.py:32).
\* analyzer.py:64-166, the loop over the lines
PythonLines(content, lines) ==
    Flatten([i \in 1..Len(lines) |-> PythonLineIssues(content, lines[i], i)])
\* analyzer.py:43-168 with the two early returns of lines 51 and 58 taken
\* away: the lexical pass runs on the unparsed text too
AfterParse_no_return(content, tree) ==
    IF tree.kind \in {"IndentationError", "SyntaxError"}
    THEN [raised |-> FALSE,
          issues |-> <<Issue(tree.kind, <<"invalid", " ", "syntax">>, tree.lineno)>>
                     \o PythonLines(content, Split(content))]
    ELSE IF tree.kind # "ok"
    THEN [raised |-> TRUE, issues |-> <<>>]
    ELSE [raised |-> FALSE,
          issues |-> _analyze_ast(Split(content)) \o PythonLines(content, Split(content))]
\* analyzer.py:43-168 once ast.parse(content) has answered tree
AfterParse(content, tree) ==
    IF tree.kind = "IndentationError"
    THEN [raised |-> FALSE,
          issues |-> <<Issue("IndentationError", <<"Indentation", " ", "error", ":", " ">>, tree.lineno)>>]
    ELSE IF tree.kind = "SyntaxError"
    THEN [raised |-> FALSE,
          issues |-> <<Issue("SyntaxError", <<"invalid", " ", "syntax">>, tree.lineno)>>]
    ELSE IF tree.kind # "ok"
    THEN [raised |-> TRUE, issues |-> <<>>]
    ELSE [raised |-> FALSE,
          issues |-> _analyze_ast(Split(content)) \o PythonLines(content, Split(content))]
_analyze_python(content) == AfterParse(content, ast_parse(content))

\* analyzer.py:212-248
JsLineIssues(line, i) ==
    IF StartsWith(Strip(line), <<"/", "/">>) THEN <<>>
    ELSE
       Opt(Contains(line, <<"eval", "(">>),
           Issue("SecurityIssue", <<"Avoid", " ", "eval", "(", ")", " ", "-", " ", "security", " ", "r", "is", "k">>, i))
    \o Opt(Contains(line, <<"innerHTML">>) /\ Contains(line, <<"=">>),
           Issue("SecurityIssue", <<"innerHTML", " ", "can", " ", "cause", " ", "XSS", " ", "-", " ", "use", " ", "textContent">>, i))
    \o Opt(Contains(line, <<"=", "=">>) /\ ~Contains(line, <<"=", "=", "=">>) /\ ~Contains(line, <<"!", "=">>),
           Issue("ComparisonBug", <<"Use", " ", "=", "=", "=", " ", "instead", " ", "of", " ", "=", "=">>, i))
    \o Opt(Contains(line, <<"!", "=">>) /\ ~Contains(line, <<"!", "=", "=">>),
           Issue("ComparisonBug", <<"Use", " ", "!", "=", "=", " ", "instead", " ", "of", " ", "!", "=">>, i))
    \o Opt(Contains(line, <<"var", " ">>),
           Issue("StyleIssue", <<"Use", " ", "let", " ", "or", " ", "const", " ", "instead", " ", "of", " ", "var">>, i))
    \o Opt(Contains(line, <<"console", ".", "log", "(">>),
           Issue("CodeQuality", <<"Remove", " ", "console", ".", "log", " ", "in", " ", "production">>, i))
    \o Opt(line # <<>> /\ EndsWithBlank(line),
           Issue("StyleIssue", <<"Trailing", " ", "whitespace">>, i))
_analyze_javascript(content) ==
    LET lines == Split(content) IN
    Flatten([i \in 1..Len(lines) |-> JsLineIssues(lines[i], i)])

\* analyzer.py:250-277
HtmlLineIssues(line, i) ==
    IF StartsWith(Strip(line), <<"<", "!", "-", "-">>) THEN <<>>
    ELSE
       Opt(Contains(line, <<"<", "img">>) /\ ~Contains(line, <<"alt", "=">>),
           Issue("Accessibility", <<"Image", " ", "m", "is", "sing", " ", "alt", " ", "attribute">>, i))
    \o Opt(Contains(line, <<"style", "=">>) /\ ~Contains(line, <<"<", "style">>),
           Issue("CodeQuality", <<"Avoid", " ", "inline", " ", "style", "s", " ", "-", " ", "use", " ", "CSS">>, i))
    \o Opt(Contains(line, <<"<", "font">>) \/ Contains(line, <<"<", "center">>),
           Issue("DeprecatedCode", <<"Deprecated", " ", "HTML", " ", "tag", " ", "-", " ", "use", " ", "CSS">>, i))
    \o Opt(line # <<>> /\ EndsWithBlank(line),
           Issue("StyleIssue", <<"Trailing", " ", "whitespace">>, i))
_analyze_html(content) ==
    LET lines == Split(content) IN
    Flatten([i \in 1..Len(lines) |-> HtmlLineIssues(lines[i], i)])

\* analyzer.py:279-296.  re.search(r'#[0-9a-fA-F]{3}\b', line): a '#', then a
\* word chunk that is three hexadecimal digits (the \b ends the word).
Hex3 == {"fff", "000", "abc", "f00", "ABC", "1a2"}
CssLineIssues(line, i) ==
       Opt(Contains(line, <<"!", "important">>),
           Issue("CodeQuality", <<"Avoid", " ", "!", "important", " ", "-", " ", "refactor", " ", "spec", "if", "icity">>, i))
    \o Opt(\E k \in 1..(Len(line) - 1) :
              /\ line[k] = "#" /\ line[k + 1] \in Hex3
              /\ (k + 2 > Len(line) \/ ~IsWord(line[k + 2])),
           Issue("StyleIssue", <<"Use", " ", "6", "-", "di", "git", " ", "hex", " ", "colors", " ", "for", " ", "cons", "is", "tency">>, i))
    \o Opt(line # <<>> /\ EndsWithBlank(line),
           Issue("StyleIssue", <<"Trailing", " ", "whitespace">>, i))
_analyze_css(content) ==
    LET lines == Split(content) IN
    Flatten([i \in 1..Len(lines) |-> CssLineIssues(lines[i], i)])

-----------------------------------------------------------------------------
(* Paths and files.  A path is [dirs, name]: the directory names below the
   scanned root and the file name, each a str. *)

\* the byte sequence that is no UTF-8
InvalidByte == "<0xff>"
\* Path.suffix: from the last '.', unless it starts or ends the name
Suffix(path) ==
    LET n == path.name
        dots == {i \in 1..Len(n) : n[i] = "."}
        i == IF dots = {} THEN 0 ELSE CHOOSE d \in dots : \A e \in dots : e <= d
    IN  IF i > 1 /\ i < Len(n) THEN SubSeq(n, i, Len(n)) ELSE <<>>
\* str(path)
RECURSIVE PathStrFrom(_, _)
PathStrFrom(dirs, name) ==
    IF dirs = <<>> THEN name ELSE Head(dirs) \o <<"/">> \o PathStrFrom(Tail(dirs), name)
PathStr(path) == PathStrFrom(path.dirs, path.name)
\* open(path, encoding='utf-8').read() raises on bytes that are no UTF-8;
\* with errors='ignore' it drops them
Decodes(bytes) == \A i \in 1..Len(bytes) : bytes[i] # InvalidByte
DecodeIgnore(bytes) == SelectSeq(bytes, LAMBDA c : c # InvalidByte)

\* analyzer.py:23-33, the try around the analysis: r.raised is caught
Caught(r) ==
    IF r.raised
    THEN <<Issue("AnalysisError", <<"Failed", " ", "to", " ", "analyze", ":", " ", "maximum", " ", "recursion", " ", "depth", " ", "exceeded", " ", "during", " ", "ast", " ", "con", "str", "uction">>, 0)>>
    ELSE r.issues
\* analyzer.py:22-35 with an analysis of .py files that also reports a
\* function as too long
analyze_content_hinting(file_path, content) ==
    LET suffix == Suffix(file_path) IN
    IF suffix = <<".", "py">>
    THEN Caught(_analyze_python(content))
         \o <<Issue("LongFunction", <<"Function", " ", "too", " ", "long">>, 1)>>
    ELSE IF suffix \in {<<".", "js">>, <<".", "jsx">>, <<".", "ts">>, <<".", "tsx">>}
    THEN _analyze_javascript(content)
    ELSE IF suffix \in {<<".", "html">>, <<".", "htm">>}
    THEN _analyze_html(content)
    ELSE IF suffix \in {<<".", "css">>, <<".", "scss">>, <<".", "sass">>}
    THEN _analyze_css(content)
    ELSE <<>>
\* analyzer.py:22-35, the dispatch on the suffix
analyze_content(file_path, content) ==
    LET suffix == Suffix(file_path) IN
    IF suffix = <<".", "py">>
    THEN Caught(_analyze_python(content))
    ELSE IF suffix \in {<<".", "js">>, <<".", "jsx">>, <<".", "ts">>, <<".", "tsx">>}
    THEN _analyze_javascript(content)
    ELSE IF suffix \in {<<".", "html">>, <<".", "htm">>}
    THEN _analyze_html(content)
    ELSE IF suffix \in {<<".", "css">>, <<".", "scss">>, <<".", "sass">>}
    THEN _analyze_css(content)
    ELSE <<>>
FileErrorIssue(file_path) ==
    Issue("FileError", <<"[", "Errno", " ", "13", "]", " ", "Perm", "is", "sion", " ", "denied", ":", " ", "'">> \o PathStr(file_path) \o <<"'">>, 0)

-----------------------------------------------------------------------------
(* fixer.py *)

\* list.insert(i, x), i 0-based; an index past the end appends
Insert(lines, i, x) ==
    LET k == Min(i, Len(lines)) IN
    SubSeq(lines, 1, k) \o <<x>> \o SubSeq(lines, k + 1, Len(lines))
\* re.sub(r'=\s*\[\s*\]', '=None', line), and the same for { }
RECURSIVE SubEmptyLiteral(_, _, _, _)
SubEmptyLiteral(s, open, close, i) ==
    IF i > Len(s) THEN <<>>
    ELSE LET j == SkipWS(s, i + 1)
             k == SkipWS(s, j + 1)
         IN  IF s[i] = "=" /\ j <= Len(s) /\ s[j] = open /\ k <= Len(s) /\ s[k] = close
             THEN <<"=", "None">> \o SubEmptyLiteral(s, open, close, k + 1)
             ELSE <<s[i]>> \o SubEmptyLiteral(s, open, close, i + 1)
\* index of the first chunk c from i on, Len(s) + 1 when there is none
RECURSIVE Upto(_, _, _)
Upto(s, i, c) == IF i > Len(s) \/ s[i] = c THEN i ELSE Upto(s, i + 1, c)
RECURSIVE SkipDotted(_, _)
SkipDotted(s, i) ==
    IF i <= Len(s) /\ (IsWord(s[i]) \/ s[i] = ".") THEN SkipDotted(s, i + 1) ELSE i
\* the first i in at, 0 when at is empty
First(at) == IF at = {} THEN 0 ELSE CHOOSE x \in at : \A y \in at : x <= y
\* re.search(r'type\(([^)]+)\)\s*==\s*([\w.]+)', line): <<start, end, group 1, group 2>>
TypeEqAt(s, i) ==
    LET c == Upto(s, i + 2, ")")
        q == SkipWS(s, c + 1)
        w == SkipWS(s, q + 2)
    IN  /\ MatchAt(s, <<"type", "(">>, i)
        /\ c > i + 2 /\ c <= Len(s)
        /\ MatchAt(s, <<"=", "=">>, q)
        /\ SkipDotted(s, w) > w
TypeEqMatch(s) ==
    LET i == First({x \in 1..Len(s) : TypeEqAt(s, x)}) IN
    IF i = 0 THEN <<>>
    ELSE LET c == Upto(s, i + 2, ")")
             w == SkipWS(s, SkipWS(s, c + 1) + 2)
         IN  <<i, SkipDotted(s, w) - 1, SubSeq(s, i + 2, c - 1),
               SubSeq(s, w, SkipDotted(s, w) - 1)>>
\* re.search(r'(\w+)\s*=\s*open\(([^)]+)\)', line): <<group 1, group 2>>
OpenAssignAt(s, i) ==
    LET e == SkipWord(s, i)
        q == SkipWS(s, e)
        o == SkipWS(s, q + 1)
        c == Upto(s, o + 2, ")")
    IN  /\ e > i
        /\ q <= Len(s) /\ s[q] = "="
        /\ MatchAt(s, <<"open", "(">>, o)
        /\ c > o + 2 /\ c <= Len(s)
OpenAssignMatch(s) ==
    LET i == First({x \in 1..Len(s) : OpenAssignAt(s, x)}) IN
    IF i = 0 THEN <<>>
    ELSE LET e == SkipWord(s, i)
             o == SkipWS(s, SkipWS(s, e) + 1)
         IN  <<SubSeq(s, i, e - 1), SubSeq(s, o + 2, Upto(s, o + 2, ")") - 1)>>
\* re.search(r'return\s+({[^}]+})', line): <<group 0, group 1>>
ReturnDictAt(s, i) ==
    LET b == SkipWS(s, i + 1)
        c == Upto(s, b + 1, "}")
    IN  /\ s[i] = "return"
        /\ b > i + 1
        /\ b <= Len(s) /\ s[b] = "{"
        /\ c > b + 1 /\ c <= Len(s)
ReturnDictMatch(s) ==
    LET i == First({x \in 1..Len(s) : ReturnDictAt(s, x)}) IN
    IF i = 0 THEN <<>>
    ELSE LET b == SkipWS(s, i + 1)
             c == Upto(s, b + 1, "}")
         IN  <<SubSeq(s, i, c), SubSeq(s, b, c)>>


\* ' ' * indent + '# ' + stripped + suffix
CommentOut(line, suffix) == Spaces(Indent(line)) \o <<"#", " ">> \o Strip(line) \o suffix

\* fixer.py:86-218, the value of `line` after the branch of the Issue's type
FixedLine(issue, line, content) ==
    LET issue_type == issue.type
        indent == Indent(line)
        stripped == Strip(line)
    IN
    CASE issue_type = "ComparisonBug" ->
           IF Contains(line, <<"=", "=", " ", "None">>) /\ ~Contains(line, <<"is", " ", "None">>)
           THEN Replace(line, <<"=", "=", " ", "None">>, <<"is", " ", "None">>)
           ELSE IF Contains(line, <<"!", "=", " ", "None">>) /\ ~Contains(line, <<"is", " ", "not", " ", "None">>)
           THEN Replace(line, <<"!", "=", " ", "None">>, <<"is", " ", "not", " ", "None">>)
           ELSE IF Contains(line, <<"=", "=", " ", "True">>) /\ ~Contains(line, <<"is", " ", "True">>)
           THEN Replace(line, <<"=", "=", " ", "True">>, <<"is", " ", "True">>)
           ELSE IF Contains(line, <<"=", "=", " ", "False">>) /\ ~Contains(line, <<"is", " ", "False">>)
           THEN Replace(line, <<"=", "=", " ", "False">>, <<"is", " ", "False">>)
           ELSE IF Contains(line, <<"=", "=">>) /\ ~Contains(line, <<"=", "=", "=">>) /\ ~Contains(line, <<"is">>)
           THEN ReplaceFirst(line, <<"=", "=">>, <<"=", "=", "=">>)
           ELSE IF Contains(line, <<"!", "=">>) /\ ~Contains(line, <<"!", "=", "=">>) /\ ~Contains(line, <<"is", " ", "not">>)
           THEN ReplaceFirst(line, <<"!", "=">>, <<"!", "=", "=">>)
           ELSE line
      [] issue_type = "BareExcept" ->
           Replace(line, <<"except", ":">>, <<"except", " ", "Exception", ":">>)
      [] issue_type = "MutableDefault" ->
           SubEmptyLiteral(SubEmptyLiteral(line, "[", "]", 1), "{", "}", 1)
      [] issue_type = "TypeCheckBug" ->
           LET m == TypeEqMatch(line) IN
           IF m = <<>> THEN line
           ELSE Replace(line, SubSeq(line, m[1], m[2]),
                        <<"is", "instance", "(">> \o m[3] \o <<",", " ">> \o m[4] \o <<")">>)
      [] issue_type = "ImportIssue" ->
           IF Contains(line, <<"import", " ", "*">>)
           THEN IF Contains(line, <<"from", " ", "flask", " ", "import", " ", "*">>)
                THEN Spaces(indent) \o <<"from", " ", "flask", " ", "import", " ", "Flask", ",", " ", "request", ",", " ", "jsonify", ",", " ", "render_template">>
                ELSE IF Contains(line, <<"from", " ", "django">>)
                THEN CommentOut(line, <<" ", " ", "#", " ", "TODO", ":", " ", "Import", " ", "spec", "if", "ic", " ", "items">>)
                ELSE CommentOut(line, <<" ", " ", "#", " ", "TODO", ":", " ", "Replace", " ", "wildcard", " ", "import">>)
           ELSE line
      [] issue_type = "SecurityIssue" ->
           IF Contains(line, <<"eval", "(">>)
           THEN CommentOut(line, <<" ", " ", "#", " ", "SECURITY", ":", " ", "Use", " ", "ast", ".", "literal_", "eval", "(", ")">>)
           ELSE IF Contains(line, <<"exec", "(">>)
           THEN CommentOut(line, <<" ", " ", "#", " ", "SECURITY", ":", " ", "Refactor">>)
           ELSE IF Contains(line, <<"innerHTML">>)
           THEN Replace(line, <<"innerHTML">>, <<"textContent">>)
           ELSE IF Contains(line, <<"shell", "=", "True">>)
           THEN Replace(line, <<"shell", "=", "True">>, <<"shell", "=", "False">>)
           ELSE IF Contains(line, <<"pickle", ".", "load">>)
           THEN CommentOut(line, <<" ", " ", "#", " ", "SECURITY", ":", " ", "Use", " ", "json">>)
           ELSE IF Contains(line, <<"verify", "=", "False">>)
           THEN Replace(line, <<"verify", "=", "False">>, <<"verify", "=", "True">>)
           ELSE IF Contains(issue.message, <<"SQL", " ", "injection">>)
           THEN CommentOut(line, <<" ", " ", "#", " ", "SECURITY", ":", " ", "Use", " ", "parameterized", " ", "queries">>)
           ELSE IF Contains(Lower(line), <<"pass", "word">>) /\ Contains(Lower(line), <<"log">>)
           THEN CommentOut(line, <<" ", " ", "#", " ", "SECURITY", ":", " ", "Remove", " ", "pass", "word", " ", "log", "ging">>)
           ELSE IF Contains(Lower(line), <<"api_key">>)
           THEN CommentOut(line, <<" ", " ", "#", " ", "SECURITY", ":", " ", "Move", " ", "to", " ", "environment", " ", "var", "iable">>)
           ELSE line
      [] issue_type = "CodeQuality" ->
           IF Contains(line, <<"console", ".", "log", "(">>)
           THEN Spaces(indent) \o <<"/", "/", " ">> \o stripped
           ELSE IF Contains(line, <<"!", "important">>)
           THEN Replace(line, <<"!", "important">>, <<>>)
           ELSE line
      [] issue_type = "DeprecatedCode" ->
           IF Contains(line, <<"var", " ">>)
           THEN Replace(line, <<"var", " ">>, <<"let", " ">>)
           ELSE IF Contains(line, <<"<", "font">>) \/ Contains(line, <<"<", "center">>)
           THEN <<"<", "!", "-", "-", " ">> \o stripped \o <<" ", "-", "-", ">">>
           ELSE line
      [] issue_type = "Accessibility" ->
           IF Contains(line, <<"<", "img">>) /\ ~Contains(line, <<"alt", "=">>)
           THEN Replace(line, <<"<", "img">>, <<"<", "img", " ", "alt", "=", "\"", "\"">>)
           ELSE line
      [] issue_type = "StyleIssue" -> RStrip(line)
      [] issue_type = "AssignmentInCondition" ->
           LET m == IfAssignMatch(line, TRUE) IN
           IF ~Contains(line, <<":", "=">>) /\ m # <<>>
           THEN LET g1 == SubSeq(line, m[1], m[2]) IN
                ReplaceFirst(line, g1 \o <<" ", "=">>, g1 \o <<" ", "=", "=">>)
           ELSE line
      [] issue_type = "EmptyFunction" ->
           IF Contains(line, <<"pass">>)
           THEN Spaces(indent) \o <<"raise", " ", "Not", "ImplementedError", "(", ")">>
           ELSE line
      [] issue_type = "PerformanceIssue" ->
           IF Contains(line, <<"sleep", "(">>)
           THEN CommentOut(line, <<" ", " ", "#", " ", "TODO", ":", " ", "Use", " ", "async", "/", "await">>)
           ELSE CommentOut(line, <<" ", " ", "#", " ", "TODO", ":", " ", "Use", " ", "join", "(", ")">>)
      [] issue_type = "DuplicateException" ->
           CommentOut(line, <<" ", " ", "#", " ", "Duplicate">>)
      [] issue_type = "ResourceLeak" ->
           IF Contains(line, <<"open", "(">>) /\ ~Contains(line, <<"with">>)
           THEN LET m == OpenAssignMatch(line) IN
                IF m = <<>> THEN line
                ELSE Spaces(indent) \o <<"with", " ", "open", "(">> \o m[2] \o <<")", " ", "as", " ">> \o m[1] \o <<":">>
           ELSE IF Contains(line, <<"connect", "(">>) \/ Contains(line, <<"Connection", "(">>)
           THEN CommentOut(line, <<" ", " ", "#", " ", "TODO", ":", " ", "Use", " ", "context", " ", "manager", " ", "or", " ", "close", "(", ")">>)
           ELSE line
      [] issue_type = "APIIssue" ->
           IF ~Contains(line, <<"methods", "=">>) /\ Contains(line, <<"@", "app", ".", "route">>)
           THEN IF Contains(line, <<"(">>) /\ Contains(line, <<")">>)
                THEN Replace(line, <<")">>, <<",", " ", "methods", "=", "[", "\"", "GET", "\"", ",", " ", "\"", "POST", "\"", "]", ")">>)
                ELSE line
           ELSE IF Contains(stripped, <<"return", " ">>) /\ ~Contains(line, <<"jsonify">>)
                   /\ Contains(issue.message, <<"dict">>)
           THEN LET m == ReturnDictMatch(line) IN
                IF m = <<>> THEN line
                ELSE Replace(line, m[1], <<"return", " ", "jsonify", "(">> \o m[2] \o <<")">>)
           ELSE line
      [] issue_type = "ErrorHandling" ->
           IF Contains(line, <<"raise", " ", "Exception", "(">>)
           THEN Replace(line, <<"raise", " ", "Exception", "(">>, <<"raise", " ", "ValueError", "(">>)
           ELSE IF Contains(line, <<"pass">>)
           THEN Spaces(indent) \o <<"log", "ger", ".", "error", "(", "\"", "Error", " ", "occurred", "\"", ")", " ", " ", "#", " ", "TODO", ":", " ", "Handle", " ", "error", " ", "properly">>
           ELSE line
      [] OTHER -> line

\* fixer.py:194-235, the lines inserted by the branch of the Issue's type
InsertedLines(issue, lines, line_num, content) ==
    LET line == lines[line_num]
        indent == Indent(line)
    IN
    CASE issue.type = "DatabaseIssue" ->
           IF Contains(line, <<"execute">>)
           THEN Insert(lines, line_num, Spaces(indent) \o <<"conn", ".", "commit", "(", ")", " ", " ", "#", " ", "Auto", "-", "added">>)
           ELSE lines
      [] issue.type = "APIIssue" ->
           IF ~(~Contains(line, <<"methods", "=">>) /\ Contains(line, <<"@", "app", ".", "route">>))
              /\ Contains(Strip(line), <<"return", " ">>) /\ ~Contains(line, <<"jsonify">>)
              /\ Contains(issue.message, <<"dict">>)
              /\ ReturnDictMatch(line) # <<>>
              /\ ~Contains(content, <<"from", " ", "flask", " ", "import">>)
           THEN Insert(lines, 0, <<"from", " ", "flask", " ", "import", " ", "jsonify">>)
           ELSE lines
      [] issue.type = "MissingLogging" ->
           IF ~Contains(Join(SubSeq(lines, 1, Min(20, Len(lines)))), <<"import", " ", "log", "ging">>)
           THEN Insert(Insert(lines, 0, <<"import", " ", "log", "ging", "\n">>), 1,
                       <<"log", "ger", " ", "=", " ", "log", "ging", ".", "get", "Log", "ger", "(", "__name__", ")", "\n">>)
           ELSE lines
      [] issue.type = "MissingErrorHandling" ->
           Insert(lines, line_num, Spaces(indent) \o <<"#", " ", "TODO", ":", " ", "Add", " ", "try", "-", "except", " ", "error", " ", "handling">>)
      [] issue.type = "LongFunction" ->
           Insert(lines, line_num,
                  Spaces(indent) \o <<"#", " ", "TODO", ":", " ", "Refactor", " ", "-", " ", "function", " ", "too", " ", "long", ",", " ", "split", " ", "into", " ", "smaller", " ", "functions">>)
      [] OTHER -> lines

\* fixer.py:75-239, one turn of the loop over the Issues
\* fixer.py:237-239, lines[line_num] = line after the insertions
WriteBack(lines, line_num, line, after) ==
    IF line # lines[line_num] THEN [after EXCEPT ![line_num] = line] ELSE after
\* fixer.py:75-239 with the line taken from the content the pass was given
FixStep_stale(lines, issue, content) ==
    IF issue.line < 1 \/ issue.line > Len(lines) \/ issue.line > Len(Split(content)) THEN lines
    ELSE [InsertedLines(issue, lines, issue.line, content) EXCEPT ![issue.line] =
              FixedLine(issue, Split(content)[issue.line], content)]
FixStep(lines, issue, content) ==
    IF issue.line < 1 \/ issue.line > Len(lines) THEN lines
    ELSE WriteBack(lines, issue.line,
                   FixedLine(issue, lines[issue.line], content),
                   InsertedLines(issue, lines, issue.line, content))
RECURSIVE FixLoop(_, _, _, _)
FixLoop(lines, issues, k, content) ==
    IF k > Len(issues) THEN lines
    ELSE FixLoop(FixStep(lines, issues[k], content), issues, k + 1, content)

\* fixer.py:66-73, lines before the loop over the Issues
FirstLines(content, issues) ==
    LET lines == Split(content)
        needs_logging == \E k \in 1..Len(issues) :
                            Contains(Lower(issues[k].message), <<"log", "ging">>)
    IN  IF needs_logging /\ ~Contains(content, <<"import", " ", "log", "ging">>)
        THEN Insert(lines, 0, <<"import", " ", "log", "ging", "\n">>)
        ELSE lines
\* fixer.py:64-241
_pattern_based_fix(content, issues) ==
    Join(FixLoop(FirstLines(content, issues), issues, 1, content))


\* s.split(c)[0]
UptoFirst(s, c) == SubSeq(s, 1, Upto(s, 1, c) - 1)
\* fixer.py:263-290, the loop that adds docstrings and comments
RECURSIVE DocLoop(_, _)
DocLoop(lines, i) ==
    IF i > Len(lines) THEN lines
    ELSE
      LET line == lines[i]
          stripped == Strip(line)
          undocumented == i + 1 <= Len(lines)
                            /\ ~StartsWith(Strip(lines[i + 1]), <<"\"", "\"", "\"">>)
          indent == Indent(line) + 4
      IN
      IF StartsWith(stripped, <<"def", " ">>) /\ Contains(line, <<":">>)
      THEN IF undocumented
           THEN DocLoop(Insert(lines, i,
                          Spaces(indent) \o <<"\"", "\"", "\"", "Function", ":", " ">>
                          \o Replace(UptoFirst(stripped, "("), <<"def", " ">>, <<>>) \o <<"\"", "\"", "\"">>),
                        i + 2)
           ELSE DocLoop(lines, i + 1)
      ELSE IF StartsWith(stripped, <<"class", " ">>) /\ Contains(line, <<":">>)
      THEN IF undocumented
           THEN DocLoop(Insert(lines, i,
                          Spaces(indent) \o <<"\"", "\"", "\"", "Class", ":", " ">>
                          \o Replace(UptoFirst(UptoFirst(stripped, "("), ":"), <<"class", " ">>, <<>>)
                          \o <<"\"", "\"", "\"">>),
                        i + 2)
           ELSE DocLoop(lines, i + 1)
      ELSE IF (Contains(stripped, <<"if", " ">>) \/ Contains(stripped, <<"for", " ">>)
                 \/ Contains(stripped, <<"while", " ">>))
              /\ ~Contains(line, <<"#">>) /\ StrLen(stripped) > 30
      THEN DocLoop([lines EXCEPT ![i] = line \o <<" ", " ", "#", " ", "Log", "ic", " ", "check">>], i + 1)
      ELSE DocLoop(lines, i + 1)
\* fixer.py:292-306, the try/except around the main block
RECURSIVE BlockEnd(_, _, _)
BlockEnd(lines, j, indent) ==
    IF j <= Len(lines) /\ (Strip(lines[j]) = <<>> \/ StartsWith(lines[j], Spaces(indent)))
    THEN BlockEnd(lines, j + 1, indent) ELSE j
WrapMain(lines, content) ==
    LET i == First({x \in 1..Len(lines) : Contains(lines[x], <<"if", " ", "__name__">>)}) IN
    IF Contains(content, <<"try", ":">>) \/ ~Contains(content, <<"if", " ", "__name__">>) \/ i = 0
    THEN lines
    ELSE LET indent == Indent(lines[i])
             opened == Insert(lines, i, Spaces(indent + 4) \o <<"try", ":">>)
             j == BlockEnd(opened, i + 2, indent + 4)
         IN  Insert(Insert(opened, j - 1, Spaces(indent + 4) \o <<"except", " ", "Exception", " ", "as", " ", "e", ":">>),
                    j, Spaces(indent + 8) \o <<"log", "ging", ".", "error", "(", "f", "\"", "Error", ":", " ", "{", "e", "}", "\"", ")">>)
\* fixer.py:243-308
_add_quality_improvements(content, file_path) ==
    LET lines == Split(content)
        has_logging == Contains(content, <<"import", " ", "log", "ging">>)
                         \/ Contains(content, <<"from", " ", "log", "ging", " ", "import">>)
        import_idx ==
            First({x \in 1..Len(lines) :
                     StartsWith(lines[x], <<"import", " ">>) \/ StartsWith(lines[x], <<"from", " ">>)})
        with_import ==
            IF ~has_logging /\ Len(lines) > 10
            THEN Insert(Insert(lines, import_idx, <<"import", " ", "log", "ging">>), import_idx + 1, <<>>)
            ELSE lines
        with_doc ==
            IF Len(with_import) > 3 /\ ~StartsWith(Strip(with_import[1]), <<"\"", "\"", "\"">>)
            THEN Insert(Insert(with_import, 0,
                          <<"\"", "\"", "\"", "Module", ":", " ">> \o file_path.name
                          \o <<" ", "-", " ", "Auto", "-", "generated", " ", "documentation", "\"", "\"", "\"">>), 1, <<>>)
            ELSE with_import
    IN  Join(WrapMain(DocLoop(with_doc, 1), content))

\* fixer.py:44-47, the fallback when no AI refactoring applies
Fallback(fixed_content, file_path) ==
    IF EndsWith(PathStr(file_path), <<".", "py">>)
    THEN _add_quality_improvements(fixed_content, file_path)
    ELSE fixed_content
\* fixer.py:337-349, what _ai_fix_with_client makes of the text the model
\* answered: the lines between the first pair of fence lines, stripped
_ai_fix_with_client(text) ==
    IF ~Contains(text, <<"<fence>">>) THEN Strip(text)
    ELSE LET lines == Split(text)
             fences == {i \in 1..Len(lines) : StartsWith(Strip(lines[i]), <<"<fence>">>)}
             start == IF fences = {} THEN 1
                      ELSE CHOOSE i \in fences : \A j \in fences : i <= j
             later == {i \in fences : i > start}
             end == IF later = {} THEN Len(lines) + 1
                    ELSE CHOOSE i \in later : \A j \in later : i <= j
         IN  Strip(Join(SubSeq(lines, start + 1, end - 1)))
\* fixer.py:51-62.  ai_answer: what the call of client.chat.completions.create
\* came back with, an exception (raised) or a text
_ai_refactor(content, ai_answer) ==
    IF ai_answer.raised THEN content ELSE _ai_fix_with_client(ai_answer.text)
\* fixer.py:29-49.  has_client: a Groq or OpenAI key is configured
fix(file_path, content, issues, has_client, ai_answer) ==
    LET complex == {"LongFunction", "MissingLogging", "MissingErrorHandling"}
        simple_issues == SelectSeq(issues, LAMBDA i : i.type \notin complex)
        complex_issues == SelectSeq(issues, LAMBDA i : i.type \in complex)
    IN  IF issues = <<>> THEN content
        ELSE IF complex_issues # <<>> /\ has_client
        THEN _ai_refactor(_pattern_based_fix(content, simple_issues), ai_answer)
        ELSE Fallback(_pattern_based_fix(content, simple_issues), file_path)


-----------------------------------------------------------------------------
(* the file system *)

\* permissions of a path; a path created by the program is its own
Perm(perms, path) == IF path \in DOMAIN perms THEN perms[path] ELSE "rw"
\* open(path, 'r', encoding='utf-8').read(): "ok" or the exception raised
ReadOutcome(fsys, perms, path) ==
    IF path \notin DOMAIN fsys THEN "FileNotFoundError"
    ELSE IF Perm(perms, path) = "none" THEN "PermissionError"
    ELSE IF ~Decodes(fsys[path]) THEN "UnicodeDecodeError"
    ELSE "ok"
\* s.split(sep)
RECURSIVE PartsFrom(_, _, _, _)
PartsFrom(s, sep, i, cur) ==
    IF i > Len(s) THEN <<cur>>
    ELSE IF s[i] = sep THEN <<cur>> \o PartsFrom(s, sep, i + 1, <<>>)
    ELSE PartsFrom(s, sep, i + 1, Append(cur, s[i]))
\* Path(file_str)
Path(file_str) ==
    LET parts == PartsFrom(file_str, "/", 1, <<>>) IN
    [dirs |-> SubSeq(parts, 1, Len(parts) - 1), name |-> parts[Len(parts)]]
\* Path.parts
Parts(path) == {path.dirs[i] : i \in 1..Len(path.dirs)} \cup {path.name}
\* the directory the runs are pointed at
Root == [dirs |-> <<>>, name |-> <<".">>]
IsPrefix(s, t) == Len(s) <= Len(t) /\ SubSeq(t, 1, Len(s)) = s
Under(path, dir) == dir = Root \/ IsPrefix(Append(dir.dirs, dir.name), path.dirs)

-----------------------------------------------------------------------------
(* utils.py: file operations *)

\* utils.py:27-39.  open(file_path, 'w') raises for a path the process may
\* not write; write_file logs and re-raises.
write_file(fsys, perms, file_path, content) ==
    IF Perm(perms, file_path) # "rw"
    THEN [raised |-> TRUE, fs |-> fsys]
    ELSE [raised |-> FALSE,
          fs |-> [p \in DOMAIN fsys \cup {file_path} |->
                    IF p = file_path THEN content ELSE fsys[p]]]

\* utils.py:17, the sibling path a backup is copied to
BackupPath(file_path, timestamp) ==
    LET suffix == Suffix(file_path)
        stem == SubSeq(file_path.name, 1, Len(file_path.name) - Len(suffix))
    IN  [dirs |-> file_path.dirs,
         name |-> stem \o <<".", "backup_">> \o timestamp \o suffix]
\* utils.py:9-25 with the test of line 13 on the backup marker taken away
backup_file_unmarked(fsys, perms, file_path, timestamp) ==
    IF \/ ReadOutcome(fsys, perms, file_path) \in {"FileNotFoundError", "PermissionError"}
       \/ Perm(perms, BackupPath(file_path, timestamp)) # "rw"
    THEN [path |-> file_path, fs |-> fsys]
    ELSE LET backup_path == BackupPath(file_path, timestamp) IN
         [path |-> backup_path,
          fs |-> [p \in DOMAIN fsys \cup {backup_path} |->
                    IF p = backup_path THEN fsys[file_path] ELSE fsys[p]]]
\* utils.py:9-25, backup_file(file_path) at the time timestamp: the path
\* returned and the file system left.  shutil.copy2 raises for a source it
\* cannot read and for a target it cannot write; backup_file then answers
\* file_path
backup_file(fsys, perms, file_path, timestamp) ==
    IF Contains(file_path.name, <<".", "backup_">>) THEN [path |-> file_path, fs |-> fsys]
    ELSE IF \/ ReadOutcome(fsys, perms, file_path) \in {"FileNotFoundError", "PermissionError"}
            \/ Perm(perms, BackupPath(file_path, timestamp)) # "rw"
    THEN [path |-> file_path, fs |-> fsys]
    ELSE LET backup_path == BackupPath(file_path, timestamp) IN
         [path |-> backup_path,
          fs |-> [p \in DOMAIN fsys \cup {backup_path} |->
                    IF p = backup_path THEN fsys[file_path] ELSE fsys[p]]]

-----------------------------------------------------------------------------
(* scanner.py *)

supported_extensions ==
    {<<".", "py">>, <<".", "js">>, <<".", "jsx">>, <<".", "ts">>, <<".", "tsx">>, <<".", "html">>, <<".", "css">>, <<".", "scss">>,
     <<".", "sass">>, <<".", "java">>, <<".", "cpp">>, <<".", "c">>, <<".", "h">>, <<".", "php">>, <<".", "rb">>, <<".", "go">>, <<".", "rs">>,
     <<".", "json">>, <<".", "xml">>, <<".", "yaml">>, <<".", "yml">>}
ignore_dirs ==
    {<<"node_modules">>, <<".", "git">>, <<"__pycache__">>, <<"venv">>, <<"env">>, <<".", "venv">>, <<"d", "is", "t">>, <<"build">>}
\* the directories of a file system: every proper prefix of a file's path
Dirs(fsys) ==
    UNION {{[dirs |-> SubSeq(f.dirs, 1, k - 1), name |-> f.dirs[k]] : k \in 1..Len(f.dirs)} :
            f \in DOMAIN fsys}
\* the directories above path, the root of the tree included
Ancestors(path) ==
    IF path = Root THEN {}
    ELSE {Root} \cup {[dirs |-> SubSeq(path.dirs, 1, k - 1), name |-> path.dirs[k]] :
                        k \in 1..Len(path.dirs)}
Parent(path) ==
    IF path.dirs = <<>> THEN Root
    ELSE [dirs |-> SubSeq(path.dirs, 1, Len(path.dirs) - 1), name |-> path.dirs[Len(path.dirs)]]
\* the mode of a directory: "rx" unless perms says otherwise
DirMode(perms, d) == IF d \in DOMAIN perms THEN perms[d] ELSE "rx"
CanList(perms, d) == DirMode(perms, d) \in {"rx", "r"}
CanSearch(perms, d) == DirMode(perms, d) \in {"rx", "x"}
\* scanner.py:25, target_path.is_file() stats the target: PermissionError
\* when a directory above it cannot be searched
StatRaises(perms, target_path) ==
    \E d \in Ancestors(target_path) : ~CanSearch(perms, d)
\* scanner.py:31 with a walk that gives up at the first directory it cannot
\* list: the PermissionError reaches line 34 and the extension is dropped
rglob_gives_up(fsys, perms, target_path, ext) ==
    IF \E d \in Dirs(fsys) \cup {Root} :
            (d = target_path \/ Under(d, target_path)) /\ ~CanList(perms, d)
    THEN {}
    ELSE {f \in DOMAIN fsys \cup Dirs(fsys) : Under(f, target_path) /\ EndsWith(f.name, ext)}
\* scanner.py:31, target_path.rglob('*' + ext): the files and directories
\* below target_path whose name ends with ext.  The walk lists a directory it
\* may read and enters a directory when the one above may be searched; one
\* it may not list is passed over without an exception
rglob(fsys, perms, target_path, ext) ==
    {f \in DOMAIN fsys \cup Dirs(fsys) :
        /\ Under(f, target_path)
        /\ EndsWith(f.name, ext)
        /\ \A d \in Ancestors(f) :
            (d = target_path \/ Under(d, target_path)) =>
                /\ CanList(perms, d)
                /\ d # Parent(f) => CanSearch(perms, d)}
\* scanner.py:19-39 with the test on ignore_dirs of line 32 taken away
scan_no_ignore(fsys, perms, target_path) ==
    IF target_path \in DOMAIN fsys
    THEN IF /\ Suffix(target_path) \in supported_extensions
            /\ ~Contains(target_path.name, <<".", "backup_">>)
         THEN {target_path} ELSE {}
    ELSE IF target_path = Root \/ target_path \in Dirs(fsys)
    THEN {f \in UNION {rglob(fsys, perms, target_path, ext) : ext \in supported_extensions} :
            ~Contains(f.name, <<".", "backup_">>)}
    ELSE {}
\* scanner.py:19-39, before list(set(files)) orders them: a file target is
\* tested on its suffix; a directory is searched with rglob('*' + ext), which
\* answers the files and the directories below it whose name ends with ext;
\* a path that is neither gives nothing
scan(fsys, perms, target_path) ==
    IF target_path \in DOMAIN fsys
    THEN IF /\ Suffix(target_path) \in supported_extensions
            /\ ~Contains(target_path.name, <<".", "backup_">>)
         THEN {target_path} ELSE {}
    ELSE IF target_path = Root \/ target_path \in Dirs(fsys)
    THEN {f \in UNION {rglob(fsys, perms, target_path, ext) : ext \in supported_extensions} :
            /\ ~Contains(f.name, <<".", "backup_">>)
            /\ Parts(f) \cap ignore_dirs = {}}
    ELSE {}
\* the orders list(set(files)) may produce
Orders(S) ==
    {s \in [1..Cardinality(S) -> S] : \A i, j \in 1..Cardinality(S) : i # j => s[i] # s[j]}

-----------------------------------------------------------------------------
(* analyzer.py: Analyzer.analyze *)

\* analyzer.py:11-35 with the Analyzer's memory of earlier calls carried into
\* the answer: the issues of the last call are returned again
analyze_accumulating(file_path, fsys, perms) ==
    (IF calls = <<>> THEN <<>> ELSE calls[Len(calls)].issues)
    \o (IF ReadOutcome(fsys, perms, file_path) \in {"FileNotFoundError", "PermissionError"}
        THEN <<FileErrorIssue(file_path)>>
        ELSE analyze_content(file_path, DecodeIgnore(fsys[file_path])))
\* analyzer.py:11-35
analyze(file_path, fsys, perms) ==
    IF ReadOutcome(fsys, perms, file_path) \in {"FileNotFoundError", "PermissionError"}
    THEN <<FileErrorIssue(file_path)>>
    ELSE analyze_content(file_path, DecodeIgnore(fsys[file_path]))
\* the record of one analyze call kept in calls
Call(file_path, fsys, perms, issues) ==
    [file |-> file_path,
     bytes |-> IF file_path \in DOMAIN fsys THEN fsys[file_path] ELSE <<>>,
     outcome |-> ReadOutcome(fsys, perms, file_path),
     issues |-> issues]

-----------------------------------------------------------------------------
(* agent.py: AutoFixAgent *)

MAX_FILES == 100
\* agent.py:41-44 with the slice one file too long
Truncate_off_by_one(fs_list) ==
    IF Len(fs_list) > MAX_FILES THEN SubSeq(fs_list, 1, MAX_FILES + 1) ELSE fs_list
\* agent.py:41-44, files[:MAX_FILES]
Truncate(fs_list) ==
    IF Len(fs_list) > MAX_FILES THEN SubSeq(fs_list, 1, MAX_FILES) ELSE fs_list
\* agent.py:46-53
InitResults(fs_list) ==
    [scanned_files |-> Len(fs_list),
     files_with_issues |-> 0,
     files_fixed |-> 0,
     files_list |-> [i \in 1..Len(fs_list) |-> PathStr(fs_list[i])],
     issues_found |-> <<>>,
     fixes_applied |-> <<>>]
Event(op, file_path, outcome) == [op |-> op, file |-> file_path, outcome |-> outcome]
\* what one turn of the scan loop did.  raised: an exception left the loop;
\* analyzed: Analyzer.analyze was called and answered issues
Turn(res, file_path, outcome, raised) ==
    [results |-> res, raised |-> raised, analyzed |-> FALSE, issues |-> <<>>,
     events |-> <<Event("scan", file_path, outcome)>>]
\* agent.py:74-77 with files_with_issues counting the issues
Record_per_issue(res, file_path, issues) ==
    [results |-> IF issues = <<>> THEN res
                 ELSE [res EXCEPT
                        !.files_with_issues = @ + Len(issues),
                        !.issues_found = @ \o [i \in 1..Len(issues) |->
                            [file |-> PathStr(file_path), issue |-> issues[i]]]],
     raised |-> FALSE, analyzed |-> TRUE, issues |-> issues,
     events |-> <<Event("scan", file_path, "analyzed")>>]
\* agent.py:74-77
Record(res, file_path, issues) ==
    [results |-> IF issues = <<>> THEN res
                 ELSE [res EXCEPT
                        !.files_with_issues = @ + 1,
                        !.issues_found = @ \o [i \in 1..Len(issues) |->
                            [file |-> PathStr(file_path), issue |-> issues[i]]]],
     raised |-> FALSE, analyzed |-> TRUE, issues |-> issues,
     events |-> <<Event("scan", file_path, "analyzed")>>]
\* agent.py:58, the paths the scan loop passes over
IsMigration(file_path) ==
    \/ Contains(Lower(PathStr(file_path)), <<"migration">>)
    \/ Contains(Lower(PathStr(file_path)), <<"alembic">>)

\* agent.py:55-77 with the try/except of lines 61-71 taken away: a failing
\* stat or read leaves the loop and run
ScanFile_uncaught(res, fsys, perms, file_path) ==
    IF IsMigration(file_path) THEN Turn(res, file_path, "skipped", FALSE)
    ELSE IF file_path \notin DOMAIN fsys THEN Turn(res, file_path, "read_error", TRUE)
    ELSE IF StrLen(fsys[file_path]) > 500000 THEN Turn(res, file_path, "too_large", FALSE)
    ELSE IF ReadOutcome(fsys, perms, file_path) # "ok"
    THEN Turn(res, file_path, "read_error", TRUE)
    ELSE Record(res, file_path, analyze(file_path, fsys, perms))
\* agent.py:55-77 with the test of lines 58-59 on the path taken away
ScanFile_unfiltered(res, fsys, perms, file_path) ==
    IF file_path \notin DOMAIN fsys THEN Turn(res, file_path, "read_error", FALSE)
    ELSE IF StrLen(fsys[file_path]) > 500000 THEN Turn(res, file_path, "too_large", FALSE)
    ELSE IF ReadOutcome(fsys, perms, file_path) # "ok"
    THEN Turn(res, file_path, "read_error", FALSE)
    ELSE Record(res, file_path, analyze(file_path, fsys, perms))
\* agent.py:55-77, one turn of the scan loop
ScanFile(res, fsys, perms, file_path) ==
    IF IsMigration(file_path) THEN Turn(res, file_path, "skipped", FALSE)
    ELSE IF file_path \notin DOMAIN fsys THEN Turn(res, file_path, "read_error", FALSE)
    ELSE IF StrLen(fsys[file_path]) > 500000 THEN Turn(res, file_path, "too_large", FALSE)
    ELSE IF ReadOutcome(fsys, perms, file_path) # "ok"
    THEN Turn(res, file_path, "read_error", FALSE)
    ELSE Record(res, file_path, analyze(file_path, fsys, perms))

\* agent.py:28, the test that starts the fix phase, without its auto_fix
ShouldFix_always(af, scan_results) == scan_results.files_with_issues > 0
\* agent.py:28
ShouldFix(af, scan_results) == af /\ scan_results.files_with_issues > 0
\* agent.py:84, set([item["file"] ...])
FilesToFix(scan_results) ==
    {scan_results.issues_found[i].file : i \in 1..Len(scan_results.issues_found)}
\* agent.py:94
FileIssues(scan_results, file_str) ==
    LET items == SelectSeq(scan_results.issues_found, LAMBDA item : item.file = file_str)
    IN  [i \in 1..Len(items) |-> items[i].issue]
\* agent.py:100
QualityIssues(file_issues) ==
    SelectSeq(file_issues,
              LAMBDA i : i.type \in {"MissingLogging", "MissingErrorHandling", "LongFunction"})
\* what self.refactorer.refactor_file answers (agent.py:102): the content it
\* was given, or an exception
RefactorAnswers == {"same", "raise"}

\* what one turn of the fix loop did
FixTurn(fres, fsys, file_str, outcome) ==
    [fix_results |-> fres, fs |-> fsys, raised |-> FALSE,
     events |-> <<Event("fix", Path(file_str), outcome)>>]
\* agent.py:106-107
Reported(fres, file_str, file_issues) ==
    [fres EXCEPT
        !.files_fixed = @ + 1,
        !.fixes_applied = Append(@, [file |-> file_str, status |-> "fixed",
                                     issues |-> Len(file_issues)])]
\* agent.py:105-110 with the report made whether or not write_file raised
Written_report_first(fres, fsys, file_str, file_issues, w) ==
    [fix_results |-> Reported(fres, file_str, file_issues),
     fs |-> w.fs, raised |-> FALSE,
     events |-> <<Event("write", Path(file_str), IF w.raised THEN "raised" ELSE "ok"),
                  Event("fix", Path(file_str), IF w.raised THEN "write_error" ELSE "fixed")>>]
\* agent.py:105-110: w is what write_file did; when it raised, lines 106-108
\* are not reached and the except clause of line 109 logs
Written(fres, fsys, file_str, file_issues, w) ==
    IF w.raised
    THEN [fix_results |-> fres, fs |-> fsys, raised |-> FALSE,
          events |-> <<Event("write", Path(file_str), "raised"),
                       Event("fix", Path(file_str), "write_error")>>]
    ELSE [fix_results |-> Reported(fres, file_str, file_issues),
          fs |-> w.fs, raised |-> FALSE,
          events |-> <<Event("write", Path(file_str), "ok"),
                       Event("fix", Path(file_str), "fixed")>>]
\* agent.py:104-108 with the call of validate_fix taken away
ApplyFix_unvalidated(fres, fsys, perms, file_str, file_issues, original_content, fixed_content) ==
    IF fixed_content = original_content THEN FixTurn(fres, fsys, file_str, "unchanged")
    ELSE Written(fres, fsys, file_str, file_issues,
                 write_file(fsys, perms, Path(file_str), fixed_content))
\* agent.py:104-108
ApplyFix(fres, fsys, perms, file_str, file_issues, original_content, fixed_content) ==
    IF fixed_content = original_content THEN FixTurn(fres, fsys, file_str, "unchanged")
    ELSE IF ~validate_fix(original_content, fixed_content)
    THEN FixTurn(fres, fsys, file_str, "rejected")
    ELSE Written(fres, fsys, file_str, file_issues,
                 write_file(fsys, perms, Path(file_str), fixed_content))
\* agent.py:88-110, one turn of the fix loop.  has_client, ai_answer and
\* refactor: what the collaborators are and answer
FixFile(fres, scan_results, fsys, perms, file_str, has_client, refactor, ai_answer) ==
    IF ReadOutcome(fsys, perms, Path(file_str)) # "ok"
    THEN FixTurn(fres, fsys, file_str, "read_error")
    ELSE IF QualityIssues(FileIssues(scan_results, file_str)) # <<>> /\ refactor = "raise"
    THEN FixTurn(fres, fsys, file_str, "refactor_error")
    ELSE ApplyFix(fres, fsys, perms, file_str, FileIssues(scan_results, file_str),
                  fsys[Path(file_str)],
                  fix(Path(file_str), fsys[Path(file_str)],
                      FileIssues(scan_results, file_str), has_client, ai_answer))

\* agent.py:85
NoFixResults == [files_fixed |-> 0, fixes_applied |-> <<>>]
\* an answer of the model behind the client that changes nothing
NoAnswer == [raised |-> TRUE, text |-> <<>>]
RECURSIVE ScanAll(_, _, _, _, _)
\* the scan loop after the turn r: an exception that left the turn ends it
ScanAllFrom(r, fsys, perms, list, i) ==
    IF r.raised THEN r.results ELSE ScanAll(r.results, fsys, perms, list, i + 1)
\* agent.py:55-80, the whole scan loop over the files of list
ScanAll(res, fsys, perms, list, i) ==
    IF i > Len(list) THEN res
    ELSE ScanAllFrom(ScanFile(res, fsys, perms, list[i]), fsys, perms, list, i)
\* agent.py:31, scan_results.update(fix_results)
Merged(scan_results, fixed) ==
    [results |-> [scan_results EXCEPT !.files_fixed = fixed.fix_results.files_fixed,
                                      !.fixes_applied = fixed.fix_results.fixes_applied],
     fs |-> fixed.fs]
RECURSIVE FixAll(_, _, _, _, _, _)
\* the fix loop after the turn r
FixAllFrom(r, scan_results, perms, list, i) ==
    IF r.raised THEN [fix_results |-> r.fix_results, fs |-> r.fs]
    ELSE FixAll(r.fix_results, scan_results, r.fs, perms, list, i + 1)
\* agent.py:87-113, the whole fix loop over the files of list, with no client
\* configured: the fix results and the file system it leaves
FixAll(fres, scan_results, fsys, perms, list, i) ==
    IF i > Len(list) THEN [fix_results |-> fres, fs |-> fsys]
    ELSE FixAllFrom(FixFile(fres, scan_results, fsys, perms, list[i], FALSE, "same", NoAnswer),
                    scan_results, perms, list, i)
\* agent.py:28-33, run after the scan loop has answered scan_results
RunFix(scan_results, fsys, perms, af) ==
    IF ShouldFix(af, scan_results)
    THEN Merged(scan_results,
                FixAll(NoFixResults, scan_results, fsys, perms,
                       CHOOSE o \in Orders(FilesToFix(scan_results)) : TRUE, 1))
    ELSE [results |-> scan_results, fs |-> fsys]
\* agent.py:20-33, run(target_path, auto_fix) when the scanner lists the
\* files in the order 'order': the result returned and the file system left
RunAll(fsys, perms, order, af) ==
    RunFix(ScanAll(InitResults(Truncate(order)), fsys, perms, Truncate(order), 1),
           fsys, perms, af)

-----------------------------------------------------------------------------
(* AutoFixAgent.run as a state machine *)

\* the moves of the agent's surroundings in one behaviour: calls of run and
\* changes of permissions
MaxEvents == 3

AppFile   == [dirs |-> <<<<"pkg">>>>, name |-> <<"app", ".", "py">>]
BlankFile == [dirs |-> <<>>, name |-> <<"blank", ".", "py">>]
DataFile  == [dirs |-> <<>>, name |-> <<"data", ".", "json">>]
\* the project the runs are pointed at
Disk ==
    (AppFile :> <<"cursor", ".", "execute", "(", "q", ")", "\n", "if", " ", "x", " ", "=", "=", " ", "None", ":", "\n", " ", " ", " ", " ", "pass">>)
    @@ (BlankFile :> <<" ", " ", " ", " ">>)
    @@ (DataFile :> <<"{", "\"", "a", "\"", ":", " ", "1", "}">>)
Targets == {Root, AppFile}

Init ==
    /\ fs = Disk
    /\ perm = [p \in DOMAIN Disk |-> "rw"]
    /\ pc = "idle"
    /\ auto_fix = FALSE
    /\ files = <<>>
    /\ idx = 1
    /\ results = InitResults(<<>>)
    /\ files_to_fix = <<>>
    /\ fix_results = NoFixResults
    /\ calls = <<>>
    /\ log = <<>>
    /\ fs0 = Disk
    /\ budget = MaxEvents
    /\ vf = <<>>
    /\ frame = <<>>

\* agent.py:20-25 and 35-53 with the lists of line 51 and 52 taken over from
\* the result of the run before
Start_carried(af, order) ==
    /\ pc = "idle"
    /\ budget > 0
    /\ budget' = budget - 1
    /\ auto_fix' = af
    /\ files' = Truncate(order)
    /\ results' = [InitResults(Truncate(order)) EXCEPT
                        !.issues_found = results.issues_found,
                        !.fixes_applied = results.fixes_applied]
    /\ idx' = 1
    /\ pc' = "scan"
    /\ files_to_fix' = <<>>
    /\ fix_results' = NoFixResults
    /\ calls' = <<>>
    /\ log' = <<>>
    /\ fs0' = fs
    /\ UNCHANGED <<fs, perm, vf, frame>>
\* agent.py:20-25 and 35-53: run is called, the scanner lists the files in
\* the order 'order' and the scan loop is entered
Start(af, order) ==
    /\ pc = "idle"
    /\ budget > 0
    /\ budget' = budget - 1
    /\ auto_fix' = af
    /\ files' = Truncate(order)
    /\ results' = InitResults(Truncate(order))
    /\ idx' = 1
    /\ pc' = "scan"
    /\ files_to_fix' = <<>>
    /\ fix_results' = NoFixResults
    /\ calls' = <<>>
    /\ log' = <<>>
    /\ fs0' = fs
    /\ UNCHANGED <<fs, perm, vf, frame>>
Run ==
    /\ pc = "idle"
    /\ budget > 0
    /\ \E target_path \in Targets, af \in BOOLEAN :
        \E order \in Orders(scan(fs, perm, target_path)) : Start(af, order)

\* agent.py:55-77, one turn of the scan loop
ScanStep ==
    /\ pc = "scan"
    /\ idx <= Len(files)
    /\ \E r \in {ScanFile(results, fs, perm, files[idx])} :
       /\ results' = r.results
       /\ calls' = IF r.analyzed
                   THEN Append(calls, Call(files[idx], fs, perm, r.issues))
                   ELSE calls
       /\ log' = log \o r.events
       /\ pc' = IF r.raised THEN "failed" ELSE "scan"
    /\ idx' = idx + 1
    /\ UNCHANGED <<fs, perm, auto_fix, files, files_to_fix, fix_results, fs0, budget, vf, frame>>

\* agent.py:79-80 and 28-30, 84-85: the scan loop is over; run either
\* returns the scan results or enters the fix loop
ScanEnd ==
    /\ pc = "scan"
    /\ idx > Len(files)
    /\ IF ShouldFix(auto_fix, results)
       THEN /\ pc' = "fix"
            /\ files_to_fix' \in Orders(FilesToFix(results))
            /\ idx' = 1
       ELSE /\ pc' = "done"
            /\ UNCHANGED <<files_to_fix, idx>>
    /\ fix_results' = NoFixResults
    /\ UNCHANGED <<fs, perm, auto_fix, files, results, calls, log, fs0, budget, vf, frame>>

\* the answers of the collaborators that a turn of the fix loop can meet:
\* they are asked for the quality kinds only (fixer.py:36, agent.py:100)
ClientChoices(file_issues) ==
    IF QualityIssues(file_issues) = <<>> THEN {FALSE} ELSE BOOLEAN
RefactorChoices(file_issues) ==
    IF QualityIssues(file_issues) = <<>> THEN {"same"} ELSE RefactorAnswers
\* agent.py:87-110, one turn of the fix loop, taken from position 'at' with
\* the collaborators answering has_client, refactor and ai_answer
FixWith(at, has_client, refactor, ai_answer) ==
    /\ pc = at
    /\ idx <= Len(files_to_fix)
    /\ \E r \in {FixFile(fix_results, results, fs, perm, files_to_fix[idx],
                         has_client, refactor, ai_answer)} :
          /\ fix_results' = r.fix_results
          /\ fs' = r.fs
          /\ log' = log \o r.events
          /\ pc' = IF r.raised THEN "failed" ELSE "fix"
    /\ idx' = idx + 1
    /\ UNCHANGED <<perm, auto_fix, files, results, files_to_fix, calls, fs0, budget, vf, frame>>
\* agent.py:87-110, one turn of the fix loop
FixNext ==
    /\ pc = "fix"
    /\ idx <= Len(files_to_fix)
    /\ \E has_client \in ClientChoices(FileIssues(results, files_to_fix[idx])),
          refactor \in RefactorChoices(FileIssues(results, files_to_fix[idx])) :
        FixWith("fix", has_client, refactor, NoAnswer)

\* agent.py:112-113 and 31-33: scan_results.update(fix_results)
FixEnd ==
    /\ pc = "fix"
    /\ idx > Len(files_to_fix)
    /\ results' = [results EXCEPT !.files_fixed = fix_results.files_fixed,
                                  !.fixes_applied = fix_results.fixes_applied]
    /\ pc' = "done"
    /\ UNCHANGED <<fs, perm, auto_fix, files, idx, files_to_fix, fix_results, calls,
                   log, fs0, budget, vf, frame>>

\* the caller has the result; the agent can be run again
Return ==
    /\ pc = "done"
    /\ pc' = "idle"
    /\ UNCHANGED <<fs, perm, auto_fix, files, idx, results, files_to_fix, fix_results,
                   calls, log, fs0, budget, vf, frame>>

\* The environment changes the permissions of a file.  Every file is opened
\* once in the scan loop and once in the fix loop, so a change matters
\* before a run and between the two loops only.
EnvChmod ==
    /\ \/ pc = "idle" /\ budget > 1
       \/ pc = "fix" /\ idx = 1 /\ budget > 0
    /\ \E f \in DOMAIN fs, p \in {"rw", "r", "none"} :
        /\ p # perm[f]
        /\ perm' = [perm EXCEPT ![f] = p]
    /\ budget' = budget - 1
    /\ UNCHANGED <<fs, pc, auto_fix, files, idx, results, files_to_fix, fix_results,
                   calls, log, fs0, vf, frame>>

Next == Run \/ ScanStep \/ ScanEnd \/ FixNext \/ FixEnd \/ Return \/ EnvChmod
Spec == Init /\ [][Next]_vars

-----------------------------------------------------------------------------
(* Properties of AutoFixAgent.run *)

\* the files write_file wrote, and the files it raised on, in the current run
WroteOk == {log[i].file : i \in {j \in 1..Len(log) : log[j] = Event("write", log[j].file, "ok")}}
WriteRaised == {log[i].file : i \in {j \in 1..Len(log) : log[j] = Event("write", log[j].file, "raised")}}
\* the files a list of fixes_applied entries names
FixedFiles(fixes_applied) == {Path(fixes_applied[i].file) : i \in 1..Len(fixes_applied)}
InRun == pc \in {"scan", "fix", "done"}

\* C1: during and after a run with auto_fix = False every file has the
\* content it had when the run started, and the result of the run has
\* files_fixed = 0 and an empty fixes_applied, whatever issues were found.
C1_ScanOnlyMutatesNothing ==
    (InRun /\ ~auto_fix) =>
        /\ fs = fs0
        /\ WroteOk = {}
        /\ results.files_fixed = 0
        /\ results.fixes_applied = <<>>
\* a scan-only run has returned a result that reports issues
C1_Witness ==
    pc = "done" /\ ~auto_fix /\ results.files_with_issues > 0 /\ results.issues_found # <<>>

\* C2: every entry of fixes_applied, and every unit of files_fixed, is for a
\* file that write_file wrote without raising in this run; a file whose write
\* raised, or that was not written, is not reported as fixed.
C2_ReportedOnlyAfterWrite ==
    /\ FixedFiles(fix_results.fixes_applied) \subseteq WroteOk
    /\ FixedFiles(results.fixes_applied) \subseteq WroteOk
    /\ fix_results.files_fixed <= Cardinality(WroteOk)
    /\ results.files_fixed <= Cardinality(WroteOk)
    /\ \A i \in 1..Len(results.fixes_applied) : results.fixes_applied[i].status = "fixed"
    /\ FixedFiles(fix_results.fixes_applied) \cap (WriteRaised \ WroteOk) = {}
\* a fix-mode run has returned after write_file raised on a file
C2_Witness ==
    pc = "done" /\ auto_fix /\ WriteRaised # {} /\ results.fixes_applied = <<>>

\* C3: a file the run has written has a sibling whose name carries
\* '.backup_' and whose content is the content the file had before the run.
C3_BackupBeforeWrite ==
    \A f \in WroteOk :
        \E b \in DOMAIN fs :
            /\ b # f
            /\ b.dirs = f.dirs
            /\ Contains(b.name, <<".", "backup_">>)
            /\ fs[b] = fs0[f]

\* the turns of the two loops that the log of the current run records
ScanTurns == SelectSeq(log, LAMBDA e : e.op = "scan")
FixTurns == SelectSeq(log, LAMBDA e : e.op = "fix")
Faults == {"read_error", "write_error", "refactor_error"}
\* C4: no fault at a file takes run out of its loops: when run returns, the
\* scan loop has taken its turn at every listed file, in order, the fix loop
\* at every file to fix, and the result carries the counts.
C4_FaultsNeverAbort ==
    /\ pc # "failed"
    /\ pc = "done" =>
        /\ [i \in 1..Len(ScanTurns) |-> ScanTurns[i].file] = files
        /\ ShouldFix(auto_fix, results) =>
             [i \in 1..Len(FixTurns) |-> PathStr(FixTurns[i].file)] = files_to_fix
        /\ {"scanned_files", "files_with_issues", "files_fixed"} \subseteq DOMAIN results
        /\ results.scanned_files = Len(files)
\* a run has returned after a fault at one file and a turn at a later file,
\* in the scan loop and in the fix loop
C4_Witness ==
    /\ pc = "done"
    /\ \E i, j \in 1..Len(log) :
        /\ i < j
        /\ log[i].op = "scan" /\ log[i].outcome = "read_error"
        /\ log[j].op = "scan" /\ log[j].outcome = "analyzed"
    /\ \E i, j \in 1..Len(log) :
        /\ i < j
        /\ log[i].op = "fix" /\ log[i].outcome \in Faults
        /\ log[j].op = "fix" /\ log[j].file # log[i].file

\* C7: the result run returns has the five fields, files_fixed =
\* len(fixes_applied) <= files_with_issues <= scanned_files, names no file
\* twice in fixes_applied, and counts in files_with_issues the distinct files
\* of issues_found.
C7_ResultInvariants ==
    pc = "done" =>
        /\ {"scanned_files", "files_with_issues", "files_fixed", "issues_found",
            "fixes_applied"} \subseteq DOMAIN results
        /\ results.files_fixed = Len(results.fixes_applied)
        /\ results.files_fixed <= results.files_with_issues
        /\ results.files_with_issues <= results.scanned_files
        /\ \A i, j \in 1..Len(results.fixes_applied) :
            results.fixes_applied[i].file = results.fixes_applied[j].file => i = j
        /\ results.files_with_issues =
            Cardinality({results.issues_found[i].file : i \in 1..Len(results.issues_found)})
\* a fix-mode run has returned with a file fixed, a file with several issues
\* and a file without issues
C7_Witness ==
    /\ pc = "done" /\ auto_fix
    /\ results.files_fixed = 1
    /\ results.files_with_issues < results.scanned_files
    /\ Len(results.issues_found) > results.files_with_issues

-----------------------------------------------------------------------------
(* validate_fix on its own *)

MaxLen == 2
\* the chunks the texts handed to validate_fix are made of: a character, a
\* run of five characters, and white space
ValidateAlphabet == {"a", "aaaaa", " ", "\n"}
ValidateTexts == StrsUpTo(ValidateAlphabet, MaxLen)

InitValidate ==
    /\ vf \in {[original_content |-> o, fixed_content |-> c, done |-> FALSE, result |-> FALSE] :
                o \in ValidateTexts, c \in ValidateTexts}
    /\ pc = "validate"
    /\ fs = <<>> /\ perm = <<>> /\ auto_fix = FALSE /\ files = <<>> /\ idx = 1
    /\ results = InitResults(<<>>) /\ files_to_fix = <<>> /\ fix_results = NoFixResults
    /\ calls = <<>> /\ log = <<>> /\ fs0 = <<>> /\ budget = 0 /\ frame = <<>>
\* utils.py:41-51, a call of validate_fix
Validate ==
    /\ pc = "validate"
    /\ ~vf.done
    /\ vf' = [vf EXCEPT !.done = TRUE,
                        !.result = validate_fix(vf.original_content, vf.fixed_content)]
    /\ UNCHANGED <<fs, perm, pc, auto_fix, files, idx, results, files_to_fix, fix_results,
                   calls, log, fs0, budget, frame>>
NextValidate == Validate
SpecValidate == InitValidate /\ [][NextValidate]_vars

\* str.strip() leaves nothing of s
IsBlank(s) == \A i \in 1..Len(s) : s[i] \in WS
\* C5 as stated: validate_fix returns false exactly when (the original is
\* non-empty and the candidate is empty or whitespace-only) or
\* 5 * len(candidate) < len(original).
C5_AsStated ==
    vf.done =>
        (vf.result = FALSE <=>
            \/ vf.original_content # <<>> /\ IsBlank(vf.fixed_content)
            \/ 5 * StrLen(vf.fixed_content) < StrLen(vf.original_content))
\* C5: validate_fix returns false exactly when the candidate is empty or
\* whitespace-only, whatever the original, or 5 * len(candidate) <
\* len(original); it returns true for every other pair, a candidate of
\* exactly 20% of the original's length included.
C5_RejectsBlankOrShort ==
    vf.done =>
        (vf.result = FALSE <=>
            \/ IsBlank(vf.fixed_content)
            \/ 5 * StrLen(vf.fixed_content) < StrLen(vf.original_content))
\* validate_fix has rejected a blank candidate for an empty original, and
\* the texts hold a candidate of exactly 20% that it accepts
C5_Witness ==
    /\ vf.done /\ ~vf.result
    /\ vf.original_content = <<>> /\ IsBlank(vf.fixed_content)
    /\ \E o \in ValidateTexts, c \in ValidateTexts :
        /\ StrLen(o) > 0 /\ 5 * StrLen(c) = StrLen(o)
        /\ validate_fix(o, c)

-----------------------------------------------------------------------------
(* a project with more files than the ceiling of agent.py:41 *)

NumFiles == 101
MaxShift == 2
\* the i-th file of the project
CeilingFile(i) == [dirs |-> <<>>, name |-> <<"f" \o ToString(i), ".", "py">>]
CeilingList == [i \in 1..NumFiles |-> CeilingFile(i)]
\* the first three files and the last carry an issue
CeilingDisk ==
    [p \in {CeilingFile(i) : i \in 1..NumFiles} |->
        IF p \in {CeilingFile(1), CeilingFile(2), CeilingFile(3), CeilingFile(NumFiles)}
        THEN <<"if", " ", "x", " ", "=", "=", " ", "None", ":", "\n", " ", " ", " ", " ", "pass">>
        ELSE <<"x", " ", "=", " ", "1">>]
Rotate(list, k) == SubSeq(list, k + 1, Len(list)) \o SubSeq(list, 1, k)
Range(list) == {list[i] : i \in 1..Len(list)}

InitCeiling ==
    /\ fs = CeilingDisk
    /\ perm = [p \in DOMAIN CeilingDisk |-> "rw"]
    /\ pc = "idle"
    /\ auto_fix = FALSE
    /\ files = <<>>
    /\ idx = 1
    /\ results = InitResults(<<>>)
    /\ files_to_fix = <<>>
    /\ fix_results = NoFixResults
    /\ calls = <<>>
    /\ log = <<>>
    /\ fs0 = CeilingDisk
    /\ budget = 1
    /\ vf = <<>>
    /\ frame = <<>>
\* run on the project; of the orders list(set(files)) may produce, the
\* rotations of the list by at most MaxShift files
RunCeiling ==
    /\ pc = "idle"
    /\ budget > 0
    /\ \E af \in BOOLEAN, k \in 0..MaxShift :
        /\ Range(Rotate(CeilingList, k)) = scan(fs, perm, Root)
        /\ Start(af, Rotate(CeilingList, k))
NextCeiling == RunCeiling \/ ScanStep \/ ScanEnd \/ FixNext \/ FixEnd \/ Return
SpecCeiling == InitCeiling /\ [][NextCeiling]_vars

\* the files the scanner listed that lie beyond files[:MAX_FILES]
Overflow == scan(fs0, perm, Root) \ Range(files)
\* C6: when scan returns more than 100 files, scanned_files = 100 and a file
\* beyond the ceiling is never analyzed, never modified and has no entry in
\* issues_found or fixes_applied.
C6_Ceiling ==
    (InRun /\ Cardinality(scan(fs0, perm, Root)) > 100) =>
        /\ results.scanned_files = 100
        /\ Len(files) = 100
        /\ \A f \in Overflow :
            /\ \A i \in 1..Len(calls) : calls[i].file # f
            /\ \A i \in 1..Len(log) : log[i].file # f
            /\ fs[f] = fs0[f]
            /\ \A i \in 1..Len(results.issues_found) : results.issues_found[i].file # PathStr(f)
            /\ \A i \in 1..Len(results.fixes_applied) : results.fixes_applied[i].file # PathStr(f)
            /\ \A i \in 1..Len(fix_results.fixes_applied) :
                fix_results.fixes_applied[i].file # PathStr(f)
\* what C14 compares of a run: the counts, the set of reported issues and the
\* set of modified files
Summary(res, fsys, before) ==
    [scanned_files |-> res.scanned_files,
     files_with_issues |-> res.files_with_issues,
     files_fixed |-> res.files_fixed,
     issues |-> {res.issues_found[i] : i \in 1..Len(res.issues_found)},
     modified |-> {p \in DOMAIN fsys : p \notin DOMAIN before \/ fsys[p] # before[p]}]
SummaryOf(r, before) == Summary(r.results, r.fs, before)
\* C14: the result a run has returned for a directory (counts, set of
\* reported issues, set of modified files) is the result it returns for every
\* order in which scan can list the files of that directory.
C14_OrderIndependent ==
    pc = "done" =>
        \A k \in 0..MaxShift :
            Summary(results, fs, fs0)
                = SummaryOf(RunAll(fs0, perm, Rotate(CeilingList, k), auto_fix), fs0)
\* a fix-mode run has returned, it has fixed files, and a file beyond the
\* ceiling carries an issue
C6_Witness ==
    /\ pc = "done" /\ auto_fix
    /\ results.files_fixed > 0
    /\ \E f \in Overflow : analyze(f, fs, perm) # <<>>

-----------------------------------------------------------------------------
(* Analyzer.analyze and Fixer.fix on one file *)

MaxCalls == 4
PyFile == [dirs |-> <<>>, name |-> <<"t", ".", "py">>]
JsFile == [dirs |-> <<>>, name |-> <<"t", ".", "js">>]
\* the contents the file starts with
PyContents ==
    {<<"if", " ", "x", " ", "=", "=", " ", "None", ":", "\n", " ", " ", " ", " ", "pass">>,
     <<"cursor", ".", "execute", "(", "q", ")", "\n", "if", " ", "x", " ", "=", "=", " ", "None", ":", "\n", " ", " ", " ", " ", "pass">>,
     <<"print", "(", "pass", "word", ")", "\n", "if", " ", "x", " ", "=", "=", " ", "None", ":", "\n", " ", " ", " ", " ", "pass">>,
     <<"try", ":", "\n", " ", " ", " ", " ", "a", "(", ")", "\n", "except", ":", "\n", " ", " ", " ", " ", "pass">>,
     <<"x", " ", "=", " ", "1">>,
     <<" ", " ", "x", " ", "=", " ", "1", "\n", " ", "y", " ", "=", " ", "2">>,
     <<"if", " ", "x", ":", "\n", "pass">>,
     <<"def", " ", "f", "(", ":", "\n", " ", " ", "pass">>,
     <<"if", " ", "x", " ", "=", "=", " ", "None", "\n", " ", " ", " ", " ", "pass">>,
     <<"x", " ", "=", " ", "1", "\n", "y", " ", "=", " ", "<1+1+...+1>">>,
     <<"x", " ", "=", " ", "eval", "(", "y", ")", "\n", "<0xff>">>}
JsContents == {<<"if", " ", "(", "a", " ", "=", "=", " ", "1", ")", " ", "{", "}">>, <<"var", " ", "x", " ", "=", " ", "1", ";">>}
\* the contents another process may leave in the file
EditContents == {<<"if", " ", "y", " ", "!", "=", " ", "None", ":", "\n", " ", " ", " ", " ", "y", " ", "=", " ", "1">>, <<"if", " ", "x", " ", "=", "=", " ", "None", "\n", " ", " ", " ", " ", "pass">>}
AnalyzeInputs ==
    {[file |-> PyFile, content |-> c] : c \in PyContents}
    \cup {[file |-> JsFile, content |-> c] : c \in JsContents}

InitAnalyze ==
    /\ \E inp \in AnalyzeInputs :
        /\ fs = (inp.file :> inp.content)
        /\ fs0 = (inp.file :> inp.content)
        /\ perm = (inp.file :> "rw")
    /\ pc = "analyzer"
    /\ calls = <<>>
    /\ log = <<>>
    /\ budget = MaxCalls
    /\ auto_fix = FALSE /\ files = <<>> /\ idx = 1
    /\ results = InitResults(<<>>) /\ files_to_fix = <<>> /\ fix_results = NoFixResults
    /\ vf = <<>>
    /\ frame = <<>>
\* analyzer.py:11-35, a call of analyze on the one Analyzer
AnalyzeCall ==
    /\ pc = "analyzer"
    /\ budget > 0
    /\ \E f \in DOMAIN fs :
        calls' = Append(calls, Call(f, fs, perm, analyze(f, fs, perm)))
    /\ budget' = budget - 1
    /\ UNCHANGED <<fs, perm, pc, auto_fix, files, idx, results, files_to_fix, fix_results,
                   log, fs0, vf, frame>>
\* fixer.py:29-49, a call of fix with the content read from the file and the
\* Issues analyze has just reported for it; the answer is written back
FixCall ==
    /\ pc = "analyzer"
    /\ budget > 0
    /\ calls # <<>>
    /\ \E c \in {calls[Len(calls)]} :
        /\ c.outcome = "ok"
        /\ c.bytes = fs[c.file]
        /\ \E fixed \in {fix(c.file, c.bytes, c.issues, FALSE, NoAnswer)} :
            /\ fs' = [fs EXCEPT ![c.file] = fixed]
            /\ log' = Append(log, [op |-> "fix", file |-> c.file, before |-> c.bytes,
                                   issues |-> c.issues, after |-> fixed])
    /\ budget' = budget - 1
    /\ UNCHANGED <<perm, pc, auto_fix, files, idx, results, files_to_fix, fix_results,
                   calls, fs0, vf, frame>>
\* another process rewrites the file
EnvEdit ==
    /\ pc = "analyzer"
    /\ budget > 1
    /\ \E f \in DOMAIN fs, c \in EditContents :
        /\ c # fs[f]
        /\ fs' = [fs EXCEPT ![f] = c]
    /\ budget' = budget - 1
    /\ UNCHANGED <<perm, pc, auto_fix, files, idx, results, files_to_fix, fix_results,
                   calls, log, fs0, vf, frame>>
\* another process takes away, or gives back, the right to read the file
EnvToggle ==
    /\ pc = "analyzer"
    /\ budget > 1
    /\ \E f \in DOMAIN fs :
        perm' = [perm EXCEPT ![f] = IF @ = "rw" THEN "none" ELSE "rw"]
    /\ budget' = budget - 1
    /\ UNCHANGED <<fs, pc, auto_fix, files, idx, results, files_to_fix, fix_results,
                   calls, log, fs0, vf, frame>>
NextAnalyze == AnalyzeCall \/ FixCall \/ EnvEdit \/ EnvToggle
SpecAnalyze == InitAnalyze /\ [][NextAnalyze]_vars

\* what ast.parse answers for the text analyze reads from the file of a call
ParseOf(c) == ast_parse(DecodeIgnore(c.bytes))
\* the calls of analyze on a readable .py file that cannot be parsed
Unparsed ==
    {i \in 1..Len(calls) :
        /\ Suffix(calls[i].file) = <<".", "py">>
        /\ calls[i].outcome \in {"ok", "UnicodeDecodeError"}
        /\ ParseOf(calls[i]).kind # "ok"}
\* C8 as stated: for a .py file that cannot be parsed, analyze returns
\* exactly one Issue, of kind SyntaxError, at the failing line.
C8_AsStated ==
    \A i \in Unparsed :
        /\ Len(calls[i].issues) = 1
        /\ calls[i].issues[1].type = "SyntaxError"
        /\ calls[i].issues[1].line = ParseOf(calls[i]).lineno
\* C8: for a .py file that cannot be parsed, analyze returns exactly one
\* Issue and no tree-based or lexical Issue: of kind IndentationError when the
\* parser reports an indentation fault, of kind SyntaxError when it reports
\* another syntax fault, both at the parser's line, and of kind AnalysisError
\* at line 0 when the parser fails in another way.
C8_OneParseIssue ==
    \A i \in Unparsed :
        /\ Len(calls[i].issues) = 1
        /\ calls[i].issues[1].type =
            (IF ParseOf(calls[i]).kind \in {"IndentationError", "SyntaxError"}
             THEN ParseOf(calls[i]).kind ELSE "AnalysisError")
        /\ calls[i].issues[1].line = ParseOf(calls[i]).lineno
\* analyze has answered for a text with an indentation fault, for a text
\* with another syntax fault that holds '== None', and for a text the parser
\* gives up on
C8_Witness ==
    /\ \E i \in Unparsed : calls[i].issues[1].type = "IndentationError"
    /\ \E i \in Unparsed :
        /\ calls[i].issues[1].type = "SyntaxError"
        /\ Contains(calls[i].bytes, <<"=", "=", " ", "None">>)
    /\ \E inp \in AnalyzeInputs :
        /\ ast_parse(inp.content).kind = "RecursionError"
        /\ analyze(inp.file, (inp.file :> inp.content), (inp.file :> "rw"))[1].type = "AnalysisError"

\* the kinds of an Issue list
Kinds(issues) == {issues[i].type : i \in 1..Len(issues)}
\* C9: after fix has been applied for the Issues analyze reported, among them
\* ComparisonBug, analyze reports no ComparisonBug for the resulting content.
C9_FixedKindGone ==
    \A i \in 1..Len(log) :
        (log[i].op = "fix" /\ "ComparisonBug" \in Kinds(log[i].issues)) =>
            "ComparisonBug" \notin Kinds(analyze_content(log[i].file, log[i].after))

\* fixer.py:75-81, lines when the loop of _pattern_based_fix takes the k-th
\* Issue
LinesAt(content, issues, k) ==
    FixLoop(FirstLines(content, issues), SubSeq(issues, 1, k - 1), 1, content)
\* C20: in a pass of _pattern_based_fix, the line the loop takes for an Issue
\* (lines[line_num - 1]) is the line of the original content where the Issue
\* was detected, as long as no earlier Issue of the list was for that line.
C20_IndicesStayValid ==
    \A i \in 1..Len(log) :
        log[i].op = "fix" =>
            \A k \in 1..Len(log[i].issues) :
                (/\ log[i].issues[k].line >= 1
                 /\ log[i].issues[k].line <= Len(Split(log[i].before))
                 /\ \A j \in 1..(k - 1) : log[i].issues[j].line # log[i].issues[k].line)
                => /\ log[i].issues[k].line <= Len(LinesAt(log[i].before, log[i].issues, k))
                   /\ LinesAt(log[i].before, log[i].issues, k)[log[i].issues[k].line]
                        = Split(log[i].before)[log[i].issues[k].line]

-----------------------------------------------------------------------------
(* utils.py: write_file, statement by statement *)

\* the calls of write_file in one behaviour
MaxWrites == 2
WriteTarget == [dirs |-> <<>>, name |-> <<"w", ".", "py">>]
\* the contents the file starts with and the candidates written to it
WriteContents ==
    {<<"if", " ", "x", " ", "=", "=", " ", "None", ":", "\n", " ", " ", " ", " ", "pass">>, <<"if", " ", "x", " ", "is", " ", "None", ":", "\n", " ", " ", " ", " ", "pass">>, <<"x", " ", "=", " ", "1">>}

InitWrite ==
    /\ fs \in {(WriteTarget :> c) : c \in WriteContents}
    /\ perm \in {(WriteTarget :> p) : p \in {"rw", "r"}}
    /\ pc = "idle"
    /\ frame = <<>>
    /\ fs0 = fs
    /\ budget = MaxWrites
    /\ log = <<>>
    /\ auto_fix = FALSE /\ files = <<>> /\ idx = 1 /\ results = InitResults(<<>>)
    /\ files_to_fix = <<>> /\ fix_results = NoFixResults /\ calls = <<>> /\ vf = <<>>

\* utils.py:27, write_file(file_path, content) is called (agent.py:105)
WriteCall ==
    /\ pc = "idle"
    /\ budget > 0
    /\ budget' = budget - 1
    /\ \E content \in WriteContents :
        /\ content # fs[WriteTarget]
        /\ frame' = [file_path |-> WriteTarget, content |-> content,
                     buffer |-> <<>>, synced |-> FALSE, error |-> "none"]
    /\ fs0' = fs
    /\ log' = <<>>
    /\ pc' = "open"
    /\ UNCHANGED <<fs, perm, auto_fix, files, idx, results, files_to_fix, fix_results,
                   calls, vf>>
\* utils.py:31, open(file_path, 'w'): raises for a file the process may not
\* write, and otherwise truncates the file to length 0
WriteOpen ==
    /\ pc = "open"
    /\ IF write_file(fs, perm, frame.file_path, frame.content).raised
       THEN /\ frame' = [frame EXCEPT !.error = "PermissionError"]
            /\ pc' = "except"
            /\ UNCHANGED fs
       ELSE /\ fs' = [fs EXCEPT ![frame.file_path] = <<>>]
            /\ pc' = "write"
            /\ UNCHANGED frame
    /\ log' = Append(log, Event("open", frame.file_path, pc'))
    /\ UNCHANGED <<perm, auto_fix, files, idx, results, files_to_fix, fix_results,
                   calls, fs0, budget, vf>>
\* utils.py:32, f.write(content): the text goes to the buffer of f
WriteBuffer ==
    /\ pc = "write"
    /\ frame' = [frame EXCEPT !.buffer = frame.content]
    /\ pc' = "flush"
    /\ UNCHANGED <<fs, perm, auto_fix, files, idx, results, files_to_fix, fix_results,
                   calls, log, fs0, budget, vf>>
\* utils.py:33, f.flush(): the buffer goes to the file; the device may accept
\* k chunks of it only and fail with OSError (no space left, quota, I/O error)
WriteFlush ==
    /\ pc = "flush"
    /\ \E k \in 0..Len(frame.buffer) :
        IF k = Len(frame.buffer)
        THEN /\ fs' = write_file(fs, perm, frame.file_path, frame.buffer).fs
             /\ frame' = [frame EXCEPT !.buffer = <<>>]
             /\ pc' = "fsync"
        ELSE /\ fs' = [fs EXCEPT ![frame.file_path] = SubSeq(frame.buffer, 1, k)]
             /\ frame' = [frame EXCEPT !.error = "OSError"]
             /\ pc' = "exit"
    /\ log' = Append(log, Event("flush", frame.file_path, pc'))
    /\ UNCHANGED <<perm, auto_fix, files, idx, results, files_to_fix, fix_results,
                   calls, fs0, budget, vf>>
\* utils.py:35, os.fsync(f.fileno()): the file is on the device, or OSError
WriteSync ==
    /\ pc = "fsync"
    /\ \/ frame' = [frame EXCEPT !.synced = TRUE]
       \/ frame' = [frame EXCEPT !.error = "OSError"]
    /\ pc' = "exit"
    /\ UNCHANGED <<fs, perm, auto_fix, files, idx, results, files_to_fix, fix_results,
                   calls, log, fs0, budget, vf>>
\* utils.py:31, the with statement closes f; utils.py:36 when nothing was
\* raised, utils.py:37-39 otherwise
WriteExit ==
    /\ pc = "exit"
    /\ pc' = IF frame.error = "none" THEN "return" ELSE "except"
    /\ UNCHANGED <<fs, perm, auto_fix, files, idx, results, files_to_fix, fix_results,
                   calls, log, fs0, budget, vf, frame>>
\* write_file has returned (agent.py:106) or raised (agent.py:109)
WriteDone ==
    /\ pc \in {"return", "except"}
    /\ pc' = "idle"
    /\ UNCHANGED <<fs, perm, auto_fix, files, idx, results, files_to_fix, fix_results,
                   calls, log, fs0, budget, vf, frame>>
NextWrite ==
    WriteCall \/ WriteOpen \/ WriteBuffer \/ WriteFlush \/ WriteSync \/ WriteExit \/ WriteDone
SpecWrite == InitWrite /\ [][NextWrite]_vars

\* C11: from the call of write_file on, whether it is running, has returned or
\* has raised, the file holds the complete content it had at the call or the
\* complete candidate; and write_file returns only after the whole candidate
\* is in the file and was synced.
C11_AtomicDurableWrite ==
    frame # <<>> =>
        /\ fs[frame.file_path] \in {fs0[frame.file_path], frame.content}
        /\ pc = "return" => fs[frame.file_path] = frame.content /\ frame.synced

-----------------------------------------------------------------------------
(* agent.py: _fix_files with the rewrite collaborator of fixer.py *)

\* an entry of issues_found of a kind fixer.py:36 hands to the collaborator
QualityItem(file_path) ==
    [file |-> PathStr(file_path),
     issue |-> Issue("LongFunction", <<"Function", " ", "too", " ", "long">>, 1)]
RECURSIVE Items(_, _)
Items(list, F) ==
    IF list = <<>> THEN <<>>
    ELSE (IF Head(list) \in F THEN <<QualityItem(Head(list))>> ELSE <<>>)
         \o Items(Tail(list), F)
\* the scan_results _fix_files is called with (agent.py:82): what the scan loop
\* found in Disk, and an entry of a quality kind for each file of F
RewriteScan(F) ==
    [ScanAll(InitResults(<<AppFile, BlankFile, DataFile>>), Disk,
             [p \in DOMAIN Disk |-> "rw"], <<AppFile, BlankFile, DataFile>>, 1)
     EXCEPT !.issues_found = @ \o Items(<<AppFile, BlankFile>>, F)]
\* what the model behind the client can come back with (fixer.py:335-349)
Answers ==
    {[raised |-> TRUE, text |-> <<>>],
     [raised |-> FALSE, text |-> <<"import", " ", "log", "ging", "\n", "if", " ", "x", " ", "is", " ", "None", ":", "\n", " ", " ", " ", " ", "pass", "\n">>],
     [raised |-> FALSE, text |-> <<"Here", ":", "\n", "<fence>", "python", "\n", "x", " ", "=", " ", "1", "\n", "<fence>", "\n", "Done", ".">>]}

InitRewrite ==
    /\ fs = Disk
    /\ perm \in [DOMAIN Disk -> {"rw", "r"}]
    /\ pc = "fix"
    /\ auto_fix = TRUE
    /\ files = <<AppFile, BlankFile, DataFile>>
    /\ results \in {RewriteScan(F) : F \in SUBSET {AppFile, BlankFile}}
    /\ files_to_fix \in Orders(FilesToFix(results))
    /\ idx = 1
    /\ fix_results = NoFixResults
    /\ frame \in {[has_client |-> b] : b \in BOOLEAN}
    /\ calls = <<>> /\ log = <<>> /\ fs0 = Disk /\ budget = 0 /\ vf = <<>>

\* fixer.py:42, the turn at files_to_fix[idx] goes to the collaborator
Asks ==
    /\ idx <= Len(files_to_fix)
    /\ frame.has_client
    /\ ReadOutcome(fs, perm, Path(files_to_fix[idx])) = "ok"
    /\ QualityIssues(FileIssues(results, files_to_fix[idx])) # <<>>
\* agent.py:87-110, a turn of the fix loop that does not reach the collaborator
FixLocal ==
    /\ pc = "fix"
    /\ idx <= Len(files_to_fix)
    /\ ~Asks
    /\ \E refactor \in RefactorChoices(FileIssues(results, files_to_fix[idx])) :
        FixWith("fix", FALSE, refactor, NoAnswer)
\* agent.py:91-97 and fixer.py:42-43, 53-57, 335: the turn reads the file and
\* client.chat.completions.create is called
ClientCall ==
    /\ pc = "fix"
    /\ Asks
    /\ pc' = "awaiting"
    /\ log' = Append(log, Event("ask", Path(files_to_fix[idx]), "sent"))
    /\ UNCHANGED <<fs, perm, auto_fix, files, idx, results, files_to_fix, fix_results,
                   calls, fs0, budget, vf, frame>>
\* fixer.py:335-349 and 58-62, agent.py:100-110: the collaborator has come back
\* and the turn is finished
ClientAnswer ==
    /\ pc = "awaiting"
    /\ \E ai_answer \in Answers, refactor \in RefactorAnswers :
        FixWith("awaiting", TRUE, refactor, ai_answer)
NextRewrite == FixLocal \/ ClientCall \/ ClientAnswer \/ FixEnd \/ Return
\* FixLocal can be taken exactly when its guard holds: a turn always moves idx
CanFixLocal == pc = "fix" /\ idx <= Len(files_to_fix) /\ ~Asks
\* The steps of the program are taken when they can be; when the collaborator
\* comes back is not in the program's hands.  The second line is
\* WF_vars(FixLocal) with ENABLED <<FixLocal>>_vars written as CanFixLocal.
SpecRewrite ==
    /\ InitRewrite /\ [][NextRewrite]_vars
    /\ ([]<>~CanFixLocal \/ []<><<FixLocal>>_vars)
    /\ WF_vars(ClientCall) /\ WF_vars(FixEnd) /\ WF_vars(Return)

-----------------------------------------------------------------------------
(* scanner.py: Scanner.scan on its own *)

\* the files of a tree
MaxTree == 3
MaxDenied == 1
\* the paths a tree is made of
ScanPaths ==
    {[dirs |-> <<>>, name |-> <<"a", ".", "py">>],
     [dirs |-> <<<<"src">>>>, name |-> <<"b", ".", "js">>],
     [dirs |-> <<<<"node_modules">>, <<"m">>>>, name |-> <<"c", ".", "js">>],
     [dirs |-> <<>>, name |-> <<"a", ".", "backup_", "20250101_000000", ".", "py">>],
     [dirs |-> <<>>, name |-> <<"not", "es", ".", "txt">>],
     [dirs |-> <<<<"venv">>>>, name |-> <<"d", ".", "py">>],
     [dirs |-> <<<<"lib", ".", "py">>>>, name |-> <<"e", ".", "py">>],
     [dirs |-> <<<<"src">>>>, name |-> <<".", "json">>]}
\* the paths scan is pointed at
ScanTargets ==
    {Root,
     [dirs |-> <<>>, name |-> <<"src">>],
     [dirs |-> <<>>, name |-> <<"venv">>],
     [dirs |-> <<>>, name |-> <<"a", ".", "py">>],
     [dirs |-> <<>>, name |-> <<"not", "es", ".", "txt">>],
     [dirs |-> <<<<"venv">>>>, name |-> <<"d", ".", "py">>],
     [dirs |-> <<>>, name |-> <<"a", ".", "backup_", "20250101_000000", ".", "py">>]}

\* the modes a directory is taken out of reach with: list only, search only,
\* neither
DeniedModes == {"r", "x", ""}
InitScan ==
    /\ fs \in {[p \in S |-> <<"x", " ", "=", " ", "1">>] : S \in {T \in SUBSET ScanPaths : Cardinality(T) <= MaxTree}}
    /\ perm \in {[p \in DOMAIN fs \cup D |-> IF p \in DOMAIN fs THEN "rw" ELSE mode] :
                    D \in {E \in SUBSET (Dirs(fs) \cup {Root}) : Cardinality(E) <= MaxDenied},
                    mode \in DeniedModes}
    /\ pc = "scanner"
    /\ frame = <<>>
    /\ files = <<>>
    /\ auto_fix = FALSE /\ idx = 1 /\ results = InitResults(<<>>)
    /\ files_to_fix = <<>> /\ fix_results = NoFixResults /\ calls = <<>> /\ log = <<>>
    /\ fs0 = fs /\ budget = 0 /\ vf = <<>>
\* scanner.py:19-39, a call of scan(path)
ScanCall ==
    /\ pc = "scanner"
    /\ \E target_path \in ScanTargets :
        /\ frame' = [target_path |-> target_path, raised |-> StatRaises(perm, target_path)]
        /\ files' \in IF StatRaises(perm, target_path) THEN {<<>>}
                      ELSE Orders(scan(fs, perm, target_path))
    /\ pc' = "scanned"
    /\ UNCHANGED <<fs, perm, auto_fix, idx, results, files_to_fix, fix_results,
                   calls, log, fs0, budget, vf>>
NextScan == ScanCall
SpecScan == InitScan /\ [][NextScan]_vars

\* C13 as stated: every path scan returns is a file whose extension is in the
\* supported set, whose path holds no ignore-directory segment and whose name
\* does not hold '.backup_', for a directory root and for a single-file root;
\* no path is returned twice.
C13_AsStated ==
    pc = "scanned" =>
        /\ \A i \in 1..Len(files) :
            /\ files[i] \in DOMAIN fs
            /\ Suffix(files[i]) \in supported_extensions
            /\ Parts(files[i]) \cap ignore_dirs = {}
            /\ ~Contains(files[i].name, <<".", "backup_">>)
        /\ \A i, j \in 1..Len(files) : i # j => files[i] # files[j]
\* C13: no path is returned twice and no returned name holds '.backup_'.  For
\* a single-file root the answer is at most that file, and its extension is
\* in the supported set (the ignore directories are not looked at).  For a
\* directory root every path returned is a file or a directory below the
\* root whose name ends with a supported extension and whose path holds no
\* ignore-directory segment.
C13_ScanFilters ==
    pc = "scanned" =>
        /\ \A i, j \in 1..Len(files) : i # j => files[i] # files[j]
        /\ \A i \in 1..Len(files) :
            /\ ~Contains(files[i].name, <<".", "backup_">>)
            /\ IF frame.target_path \in DOMAIN fs
               THEN /\ files[i] = frame.target_path
                    /\ Suffix(files[i]) \in supported_extensions
               ELSE /\ files[i] \in DOMAIN fs \cup Dirs(fs)
                    /\ Under(files[i], frame.target_path)
                    /\ \E ext \in supported_extensions : EndsWith(files[i].name, ext)
                    /\ Parts(files[i]) \cap ignore_dirs = {}
\* scan of the root of a tree of three files, one of them in an ignore
\* directory, has answered a directory and two files
C13_Witness ==
    /\ pc = "scanned"
    /\ frame.target_path = Root
    /\ Cardinality(DOMAIN fs) = 3
    /\ \E p \in DOMAIN fs : Parts(p) \cap ignore_dirs # {}
    /\ Len(files) = 3
    /\ \E i \in 1..3 : files[i] \in Dirs(fs)

\* the directories at or below the target that the walk cannot list or
\* cannot pass through
Inaccessible(fsys, perms, target_path) ==
    {d \in Dirs(fsys) \cup {Root} :
        /\ d = target_path \/ Under(d, target_path)
        /\ ~CanList(perms, d) \/ ~CanSearch(perms, d)}
\* the paths scan returns from target_path when every directory is open
Expected(fsys, target_path) == scan(fsys, [p \in DOMAIN fsys |-> "rw"], target_path)
\* C15: a scan of a directory the scanner can reach returns whatever
\* directories below it deny access: every path that passes the filters and
\* has no inaccessible directory above it is returned, and a path that is
\* missing from the result lies below an inaccessible directory.
C15_PermissionNeverFatal ==
    (pc = "scanned" /\ ~StatRaises(perm, frame.target_path)
        /\ frame.target_path \in Dirs(fs) \cup {Root}) =>
        /\ ~frame.raised
        /\ \A f \in Expected(fs, frame.target_path) :
            \/ \E i \in 1..Len(files) : files[i] = f
            \/ \E d \in Inaccessible(fs, perm, frame.target_path) : d \in Ancestors(f)
        /\ \A i \in 1..Len(files) : files[i] \in Expected(fs, frame.target_path)
\* scan of the root has returned with a file an unlistable directory hides
\* and a file outside that directory
C15_Witness ==
    /\ pc = "scanned" /\ frame.target_path = Root /\ ~frame.raised
    /\ \E d \in Dirs(fs) : ~CanList(perm, d)
    /\ \E f \in Expected(fs, Root) : \A i \in 1..Len(files) : files[i] # f
    /\ Len(files) > 0

-----------------------------------------------------------------------------
(* backup_file called again and again *)

MaxBackups == 3
\* the times of the calls, as strftime('%Y%m%d_%H%M%S') prints them
Timestamps == {<<"20250101_000000">>, <<"20250101_000001">>}
BackupPaths ==
    {[dirs |-> <<>>, name |-> <<"a", ".", "py">>],
     [dirs |-> <<>>, name |-> <<"a", ".", "backup_", "20250101_000000", ".", "py">>],
     [dirs |-> <<>>, name |-> <<"not", "es">>],
     [dirs |-> <<<<"pkg">>>>, name |-> <<"b", ".", "min", ".", "js">>]}
InitBackup ==
    /\ fs \in {[p \in S |-> p.name] : S \in SUBSET BackupPaths \ {{}}}
    /\ perm \in [DOMAIN fs -> {"rw", "none"}]
    /\ pc = "utils"
    /\ frame = <<>>
    /\ log = <<>>
    /\ budget = MaxBackups
    /\ fs0 = fs
    /\ files = <<>> /\ auto_fix = FALSE /\ idx = 1 /\ results = InitResults(<<>>)
    /\ files_to_fix = <<>> /\ fix_results = NoFixResults /\ calls = <<>> /\ vf = <<>>
\* utils.py:9-25, a call of backup_file on a path of the tree (a backup made
\* by an earlier call included) or on one that does not exist
BackupCall ==
    /\ pc = "utils"
    /\ budget > 0
    /\ \E file_path \in DOMAIN fs \cup BackupPaths, timestamp \in Timestamps :
        \E r \in {backup_file(fs, perm, file_path, timestamp)} :
            /\ fs' = r.fs
            /\ frame' = [file_path |-> file_path, returned |-> r.path, before |-> fs]
            /\ log' = Append(log, Event("backup", file_path, r.path))
    /\ budget' = budget - 1
    /\ UNCHANGED <<perm, pc, auto_fix, files, idx, results, files_to_fix, fix_results,
                   calls, fs0, vf>>
NextBackup == BackupCall
SpecBackup == InitBackup /\ [][NextBackup]_vars

\* C16: backup_file on a path whose name holds '.backup_' leaves the file
\* system as it was and returns that path; every copy the calls have made is
\* the copy of a file whose name does not hold the marker.
C16_NoBackupOfBackup ==
    /\ (frame # <<>> /\ Contains(frame.file_path.name, <<".", "backup_">>)) =>
            /\ fs = frame.before
            /\ frame.returned = frame.file_path
    /\ \A i \in 1..Len(log) :
            log[i].outcome # log[i].file => ~Contains(log[i].file.name, <<".", "backup_">>)
    /\ \A p \in DOMAIN fs \ DOMAIN fs0 :
            \E src \in BackupPaths, timestamp \in Timestamps :
                /\ ~Contains(src.name, <<".", "backup_">>)
                /\ p = BackupPath(src, timestamp)
\* a backup was made, and backup_file was then called on the path it returned
C16_Witness ==
    /\ Len(log) >= 2
    /\ log[1].outcome # log[1].file
    /\ log[2].file = log[1].outcome
    /\ log[2].outcome = log[2].file
    /\ DOMAIN fs \ DOMAIN fs0 = {log[1].outcome}

-----------------------------------------------------------------------------
(* run called again on the same agent, the files rewritten in between *)

\* what another process leaves in a file between two runs
RewriteContents == {<<"x", " ", "=", " ", "1">>, <<"if", " ", "x", " ", "=", "=", " ", "None", ":", "\n", " ", " ", " ", " ", "pass">>}
\* another process rewrites a file while no run is under way
EnvRewrite ==
    /\ pc = "idle"
    /\ budget > 1
    /\ \E f \in DOMAIN fs, c \in RewriteContents :
        /\ c # fs[f]
        /\ fs' = [fs EXCEPT ![f] = c]
    /\ budget' = budget - 1
    /\ UNCHANGED <<perm, pc, auto_fix, files, idx, results, files_to_fix, fix_results,
                   calls, log, fs0, vf, frame>>
\* agent.py:33, the caller keeps the dict run returned and may call run again
Collect ==
    /\ pc = "done"
    /\ pc' = "idle"
    /\ frame' = [earlier |-> results]
    /\ UNCHANGED <<fs, perm, auto_fix, files, idx, results, files_to_fix, fix_results,
                   calls, log, fs0, budget, vf>>
NextRerun == Run \/ ScanStep \/ ScanEnd \/ FixNext \/ FixEnd \/ Collect \/ EnvRewrite
\* the project of the reruns: a file with an issue and a blank one
RerunDisk ==
    (AppFile :> <<"if", " ", "x", " ", "=", "=", " ", "None", ":", "\n", " ", " ", " ", " ", "pass">>) @@ (BlankFile :> <<" ", " ", " ", " ">>)
InitRerun ==
    /\ fs = RerunDisk
    /\ perm = [p \in DOMAIN RerunDisk |-> "rw"]
    /\ pc = "idle"
    /\ auto_fix = FALSE
    /\ files = <<>>
    /\ idx = 1
    /\ results = InitResults(<<>>)
    /\ files_to_fix = <<>>
    /\ fix_results = NoFixResults
    /\ calls = <<>>
    /\ log = <<>>
    /\ fs0 = RerunDisk
    /\ budget = MaxEvents
    /\ vf = <<>>
    /\ frame = <<>>
SpecRerun == InitRerun /\ [][NextRerun]_vars

\* the result of the scan loop on the files of this run as they were when
\* the run started, from lists that start empty
Fresh ==
    ScanAll([scanned_files |-> Len(files), files_with_issues |-> 0, files_fixed |-> 0,
             files_list |-> [i \in 1..Len(files) |-> PathStr(files[i])],
             issues_found |-> <<>>, fixes_applied |-> <<>>],
            fs0, perm, files, 1)
\* C17: whatever runs and rewrites came before, the result a run returns
\* holds the issues computed from the bytes the files had at that run, and
\* a fix entry for a file written in that run only.
C17_NoMemo ==
    pc = "done" =>
        /\ results.issues_found = Fresh.issues_found
        /\ results.files_with_issues = Fresh.files_with_issues
        /\ results.scanned_files = Len(files)
        /\ FixedFiles(results.fixes_applied) \subseteq WroteOk
        /\ results.files_fixed = Len(results.fixes_applied)
\* a run has returned issues, a file was rewritten since, and a later run
\* has returned a different list of issues
C17_Witness ==
    /\ pc = "done"
    /\ frame # <<>>
    /\ frame.earlier.issues_found # <<>>
    /\ results.issues_found # frame.earlier.issues_found
    /\ \E f \in DOMAIN fs0 : fs0[f] # RerunDisk[f] /\ fs0[f] \in RewriteContents

-----------------------------------------------------------------------------
(* run on a project without a supported file *)

\* the paths such a project is made of: no file has a supported extension
EmptyPaths ==
    {[dirs |-> <<>>, name |-> <<"not", "es", ".", "txt">>],
     [dirs |-> <<>>, name |-> <<"Makefile">>],
     [dirs |-> <<<<"docs">>>>, name |-> <<"README", ".", "md">>],
     [dirs |-> <<<<"lib", ".", "py">>>>, name |-> <<"not", "es", ".", "txt">>],
     [dirs |-> <<<<"src">>, <<"app", ".", "js">>>>, name |-> <<"Makefile">>]}
InitEmpty ==
    /\ fs \in {[p \in S |-> <<"if", " ", "x", " ", "=", "=", " ", "None", ":", "\n", " ", " ", " ", " ", "pass">>] : S \in SUBSET EmptyPaths}
    /\ perm = [p \in DOMAIN fs |-> "rw"]
    /\ pc = "idle"
    /\ auto_fix = FALSE
    /\ files = <<>>
    /\ idx = 1
    /\ results = InitResults(<<>>)
    /\ files_to_fix = <<>>
    /\ fix_results = NoFixResults
    /\ calls = <<>>
    /\ log = <<>>
    /\ fs0 = fs
    /\ budget = 1
    /\ vf = <<>>
    /\ frame = <<>>
\* agent.py:20-25, run(target_path, auto_fix) on the root of the project
RunEmpty ==
    /\ pc = "idle"
    /\ budget > 0
    /\ \E af \in BOOLEAN, order \in Orders(scan(fs, perm, Root)) : Start(af, order)
\* the fix loop is left out: C18_NoSupportedFile states that it is not entered
NextEmpty == RunEmpty \/ ScanStep \/ ScanEnd \/ Return
SpecEmpty == InitEmpty /\ [][NextEmpty]_vars

\* the directories of the project whose name ends with a supported extension
NamedLikeFiles(fsys) ==
    {d \in Dirs(fsys) : \E ext \in supported_extensions : EndsWith(d.name, ext)}
-----------------------------------------------------------------------------
(* helpers/zip_helper.py: ZipHelper.create_zip *)

\* the bytes of an archive, which no check looks into
ZipBytes == <<"PK">>
\* zip_helper.py:40, os.path.relpath(file_path, source_dir)
RelPath(file_path, source_dir) ==
    IF source_dir = Root THEN file_path
    ELSE [dirs |-> SubSeq(file_path.dirs, Len(source_dir.dirs) + 2, Len(file_path.dirs)),
          name |-> file_path.name]
\* zip_helper.py:29-46, create_zip(source_dir, output_path, exclude_git) with
\* output_path outside source_dir: os.walk hands over every directory below
\* source_dir as the str root, and line 37 passes over the directory when
\* '.git' is found in that str; the arcnames written and their count
create_zip(fsys, source_dir, exclude_git) ==
    LET written == {f \in DOMAIN fsys :
                        /\ Under(f, source_dir)
                        /\ ~(exclude_git /\ Contains(PathStr(Parent(f)), <<".", "git">>))}
    IN  [files_added |-> Cardinality(written),
         namelist |-> {RelPath(f, source_dir) : f \in written}]

ZipPaths ==
    {[dirs |-> <<<<"source">>>>, name |-> <<"file", ".", "txt">>],
     [dirs |-> <<<<"source">>, <<".", "git">>>>, name |-> <<"config">>],
     [dirs |-> <<<<"source">>, <<".", "git", "hub">>, <<"workflows">>>>, name |-> <<"ci", ".", "yml">>],
     [dirs |-> <<<<"source">>, <<"sub">>, <<".", "git">>>>, name |-> <<"HEAD">>],
     [dirs |-> <<<<"source">>>>, name |-> <<".", "git", "ignore">>],
     [dirs |-> <<<<"repo", ".", "git">>>>, name |-> <<"a", ".", "py">>]}
OutputZip == [dirs |-> <<<<"out">>>>, name |-> <<"output", ".", "zip">>]
InitZip ==
    /\ fs \in {[p \in S |-> <<"x", " ", "=", " ", "1">>] : S \in SUBSET ZipPaths \ {{}}}
    /\ perm = [p \in DOMAIN fs |-> "rw"]
    /\ pc = "zip_helper"
    /\ frame = <<>>
    /\ fs0 = fs
    /\ files = <<>> /\ auto_fix = FALSE /\ idx = 1 /\ results = InitResults(<<>>)
    /\ files_to_fix = <<>> /\ fix_results = NoFixResults /\ calls = <<>> /\ log = <<>>
    /\ budget = 0 /\ vf = <<>>
\* zip_helper.py:29-46, a call of create_zip on a directory of the tree
ZipCall ==
    /\ pc = "zip_helper"
    /\ \E source_dir \in Dirs(fs), exclude_git \in BOOLEAN :
        \E r \in {create_zip(fs, source_dir, exclude_git)} :
            /\ frame' = [source_dir |-> source_dir, exclude_git |-> exclude_git,
                         files_added |-> r.files_added, namelist |-> r.namelist]
            /\ fs' = [p \in DOMAIN fs \cup {OutputZip} |->
                        IF p = OutputZip THEN ZipBytes ELSE fs[p]]
    /\ pc' = "zipped"
    /\ UNCHANGED <<perm, auto_fix, files, idx, results, files_to_fix, fix_results,
                   calls, log, fs0, budget, vf>>
NextZip == ZipCall
SpecZip == InitZip /\ [][NextZip]_vars

\* a file lies inside a .git directory
InsideGit(file_path) == \E k \in 1..Len(file_path.dirs) : file_path.dirs[k] = <<".", "git">>
\* C19: create_zip returns the number of entries it wrote, and with
\* exclude_git that number is the number of files under source_dir that are
\* not inside a .git directory.
C19_ZipCount ==
    pc = "zipped" =>
        /\ frame.files_added = Cardinality(frame.namelist)
        /\ frame.exclude_git =>
            frame.files_added =
                Cardinality({f \in DOMAIN fs0 : Under(f, frame.source_dir) /\ ~InsideGit(f)})

-----------------------------------------------------------------------------
(* the steps of a fix-mode run at each file *)

GoodFile   == [dirs |-> <<>>, name |-> <<"good", ".", "py">>]
BrokenFile == [dirs |-> <<>>, name |-> <<"broken", ".", "py">>]
DefFile    == [dirs |-> <<>>, name |-> <<"def", ".", "py">>]
\* a file the rules repair, a blank one, and two that do not parse
StepsDisk ==
    (GoodFile :> <<"if", " ", "x", " ", "=", "=", " ", "None", ":", "\n", " ", " ", " ", " ", "pass">>)
    @@ (BlankFile :> <<" ", " ", " ", " ">>)
    @@ (BrokenFile :> <<"if", " ", "x", ":", "\n", "pass">>)
    @@ (DefFile :> <<"def", " ", "f", "(", ":", "\n", " ", " ", "pass">>)
InitSteps ==
    /\ fs = StepsDisk
    /\ perm = [p \in DOMAIN StepsDisk |-> "rw"]
    /\ pc = "idle"
    /\ auto_fix = FALSE
    /\ files = <<>>
    /\ idx = 1
    /\ results = InitResults(<<>>)
    /\ files_to_fix = <<>>
    /\ fix_results = NoFixResults
    /\ calls = <<>>
    /\ log = <<>>
    /\ fs0 = StepsDisk
    /\ budget = 1
    /\ vf = <<>>
    /\ frame = <<>>
NextSteps == RunEmpty \/ ScanStep \/ ScanEnd \/ FixNext \/ FixEnd \/ Return
SpecSteps == InitSteps /\ [][NextSteps]_vars

\* agent.py:97, the candidate the fix loop computes for a file of this run
Candidate(f) == fix(f, fs0[f], FileIssues(results, PathStr(f)), FALSE, NoAnswer)
\* C21: a file is written only after its turn in the scan loop (read and
\* analyzed), with a candidate that differs from the content read and that
\* validate_fix accepts, and it then holds the candidate; a file whose
\* candidate equals the original or is rejected keeps its content and has no
\* entry in fixes_applied.
C21_StepsInOrder ==
    \A i \in 1..Len(log) :
        /\ log[i].op = "write" =>
            /\ Candidate(log[i].file) # fs0[log[i].file]
            /\ validate_fix(fs0[log[i].file], Candidate(log[i].file))
            /\ \E j \in 1..(i - 1) : log[j] = Event("scan", log[i].file, "analyzed")
            /\ \E c \in 1..Len(calls) :
                calls[c].file = log[i].file /\ calls[c].bytes = fs0[log[i].file]
            /\ log[i].outcome = "ok" => fs[log[i].file] = Candidate(log[i].file)
        /\ (log[i].op = "fix" /\ log[i].outcome \in {"unchanged", "rejected"}) =>
            /\ fs[log[i].file] = fs0[log[i].file]
            /\ log[i].file \notin FixedFiles(fix_results.fixes_applied)
            /\ log[i].file \notin FixedFiles(results.fixes_applied)
            /\ \A j \in 1..Len(log) : ~(log[j].op = "write" /\ log[j].file = log[i].file)
            /\ log[i].outcome = "unchanged" <=> Candidate(log[i].file) = fs0[log[i].file]
            /\ log[i].outcome = "rejected" =>
                ~validate_fix(fs0[log[i].file], Candidate(log[i].file))
\* a fix-mode run has returned after writing one file, leaving one whose
\* candidate was the original and one whose candidate was rejected
C21_Witness ==
    /\ pc = "done" /\ auto_fix
    /\ \E i \in 1..Len(log) : log[i] = Event("write", GoodFile, "ok")
    /\ \E i \in 1..Len(log) : log[i] = Event("fix", BrokenFile, "unchanged")
    /\ \E i \in 1..Len(log) : log[i] = Event("fix", BlankFile, "rejected")
    /\ results.files_fixed = Len(results.fixes_applied)

\* fixer.py:75-239, the kinds of Issue no branch of the loop rewrites
NoRuleKinds == {"SyntaxError", "IndentationError", "FileError", "AnalysisError"}
\* the Issues reported for f are all of kinds without a rewrite rule
OnlyNoRuleKinds(f) ==
    /\ FileIssues(results, PathStr(f)) # <<>>
    /\ \A k \in 1..Len(FileIssues(results, PathStr(f))) :
        FileIssues(results, PathStr(f))[k].type \in NoRuleKinds
\* C22: a file whose Issues are all of kinds without a rewrite rule gets a
\* candidate equal to its original content, is not written and is not reported
\* as fixed.
C22_NoRuleNoChange ==
    \A f \in DOMAIN fs0 :
        OnlyNoRuleKinds(f) =>
            /\ Candidate(f) = fs0[f]
            /\ fs[f] = fs0[f]
            /\ f \notin FixedFiles(results.fixes_applied)

-----------------------------------------------------------------------------
(* one pass of _pattern_based_fix over the Issues analyze reports *)

\* contents with several Issues on one line, or with Issues that prepend
PatternContents ==
    {<<"@", "app", "\n", "def", " ", "a", "(", ")", ":", "\n", " ", " ", " ", " ", "return", " ", "{", "1", "}", "\n", " ", " ", " ", " ", "return", " ", "{", "2", "}">>,
     <<"@", "app", "\n", "def", " ", "a", "(", ")", ":", "\n", " ", " ", " ", " ", "return", " ", "{", "1", "}">>,
     <<"from", " ", "flask", " ", "import", " ", "Flask", "\n", "@", "app", "\n", "def", " ", "a", "(", ")", ":", "\n", " ", " ", " ", " ", "return", " ", "{", "1", "}">>,
     <<"print", "(", "pass", "word", ")", "\n", "print", "(", "pass", "word", ")">>,
     <<"import", " ", "log", "ging", "\n", "print", "(", "pass", "word", ")">>,
     <<"if", " ", "x", " ", "=", "=", " ", "None", " ", "and", " ", "y", " ", "=", "=", " ", "True", ":", "\n", " ", " ", " ", " ", "pass">>,
     <<"if", " ", "x", " ", "=", "=", " ", "None", " ", "and", " ", "type", "(", "y", ")", " ", "=", "=", " ", "int", ":", "\n", " ", " ", " ", " ", "pass">>,
     <<"y", " ", "=", " ", "eval", "(", "x", ")", " ", "=", "=", " ", "None">>,
     <<"try", ":", "\n", " ", " ", " ", " ", "a", "(", ")", "\n", "except", ":", "\n", " ", " ", " ", " ", "pass", "\n", "if", " ", "x", " ", "=", "=", " ", "None", ":", "\n", " ", " ", " ", " ", "pass">>}
InitPattern ==
    /\ \E c \in PatternContents :
        /\ fs = (PyFile :> c)
        /\ fs0 = (PyFile :> c)
        /\ perm = (PyFile :> "rw")
    /\ pc = "analyzer"
    /\ calls = <<>>
    /\ log = <<>>
    /\ budget = MaxCalls
    /\ auto_fix = FALSE /\ files = <<>> /\ idx = 1
    /\ results = InitResults(<<>>) /\ files_to_fix = <<>> /\ fix_results = NoFixResults
    /\ vf = <<>>
    /\ frame = <<>>
SpecPattern == InitPattern /\ [][NextAnalyze]_vars

\* fixer.py:72 and 211, the lines a pass puts before the whole document
Prepends == {<<"import", " ", "log", "ging">>, <<"from", " ", "flask", " ", "import", " ", "jsonify">>}
CountLines(lines, l) == Cardinality({i \in 1..Len(lines) : lines[i] = l})
\* the calls of fix of the run, each with the Issues analyze reported
PatternCalls == {i \in 1..Len(log) : log[i].op = "fix"}
\* fixer.py:64-241, the lines one pass returns for the call
PassLines(e) == Split(_pattern_based_fix(e.before, e.issues))
\* C23: in one pass of _pattern_based_fix a whole-document prepend is
\* inserted at most once, whatever the list of Issues, and not at all when
\* the document already holds it.
C23_PrependOnce ==
    \A i \in PatternCalls : \A p \in Prepends :
        /\ CountLines(PassLines(log[i]), p) <= CountLines(Split(log[i].before), p) + 1
        /\ Contains(log[i].before, p) =>
            CountLines(PassLines(log[i]), p) = CountLines(Split(log[i].before), p)

\* fixer.py:75-99, the rules of the Issues that name line n, applied in list
\* order from the k-th Issue on, each to what the one before it left
RECURSIVE RulesInTurn(_, _, _, _, _)
RulesInTurn(issues, k, n, line, content) ==
    IF k > Len(issues) THEN line
    ELSE RulesInTurn(issues, k + 1, n,
                     IF issues[k].line = n THEN FixedLine(issues[k], line, content) ELSE line,
                     content)
\* fixer.py:66-241, the list the pass joins
PassList(e) == FixLoop(FirstLines(e.before, e.issues), e.issues, 1, e.before)
\* the pass of the call inserted no line
NoInsertion(e) == Len(PassList(e)) = Len(Split(e.before))
-----------------------------------------------------------------------------
(* the kinds of Issue that are routed to the collaborators *)

\* fixer.py:35-36 and agent.py:100
CollaboratorKinds == {"LongFunction", "MissingLogging", "MissingErrorHandling"}
\* C25: analyze never reports an Issue of a kind routed to the collaborators,
\* so no run hands a file to _ai_refactor or to the refactorer, and every
\* entry of fixes_applied counts the Issues of its file once.
C25_NoCollaboratorKinds ==
    /\ \A c \in 1..Len(calls) : \A k \in 1..Len(calls[c].issues) :
        calls[c].issues[k].type \notin CollaboratorKinds
    /\ \A k \in 1..Len(results.issues_found) :
        results.issues_found[k].issue.type \notin CollaboratorKinds
    /\ \A k \in 1..Len(files_to_fix) :
        /\ QualityIssues(FileIssues(results, files_to_fix[k])) = <<>>
        /\ ClientChoices(FileIssues(results, files_to_fix[k])) = {FALSE}
        /\ RefactorChoices(FileIssues(results, files_to_fix[k])) = {"same"}
    /\ \A i \in 1..Len(log) : ~(log[i].op = "fix" /\ log[i].outcome = "refactor_error")
    /\ \A k \in 1..Len(fix_results.fixes_applied) :
        /\ fix_results.fixes_applied[k].issues =
              Len(FileIssues(results, fix_results.fixes_applied[k].file))
        /\ \A j \in 1..(k - 1) :
              fix_results.fixes_applied[j].file # fix_results.fixes_applied[k].file
\* a fix-mode run has analyzed files, found Issues and fixed a file
C25_Witness ==
    /\ pc = "done" /\ auto_fix
    /\ Len(calls) > 0
    /\ Len(results.issues_found) > 1
    /\ results.files_fixed > 0

-----------------------------------------------------------------------------
(* the lines a pass of _pattern_based_fix leaves alone *)

\* the lines of the content, from the n-th on, that no Issue of the list names
RECURSIVE UnnamedFrom(_, _, _)
UnnamedFrom(lines, issues, n) ==
    IF n > Len(lines) THEN <<>>
    ELSE (IF \E k \in 1..Len(issues) : issues[k].line = n THEN <<>> ELSE <<lines[n]>>)
         \o UnnamedFrom(lines, issues, n + 1)
\* a[i..] can be read off b[j..] from left to right
RECURSIVE Embeds(_, _, _, _)
Embeds(a, i, b, j) ==
    IF i > Len(a) THEN TRUE
    ELSE IF j > Len(b) THEN FALSE
    ELSE IF a[i] = b[j] THEN Embeds(a, i + 1, b, j + 1)
    ELSE Embeds(a, i, b, j + 1)
\* C26: after a pass, every line of the original content that no Issue names
\* is still there, with its content and in the original order, also when the
\* rule of an Issue both inserts a line and rewrites the line it was given.
C26_UnnamedLinesKept ==
    \A i \in PatternCalls :
        Embeds(UnnamedFrom(Split(log[i].before), log[i].issues, 1), 1, PassList(log[i]), 1)

-----------------------------------------------------------------------------
(* api.py: the fix loop of the audit endpoints *)

\* api.py:972-984 (audit_zip) and 1089-1101 (audit_public_repo), one turn of
\* the loop over scanner.scan(extract_dir): the file system it leaves and the
\* write it made, if any
AuditFixFile(fsys, perms, file_path) ==
    LET issues == analyze(file_path, fsys, perms) IN
    IF issues = <<>> THEN [fs |-> fsys, outcome |-> "clean", wrote |-> <<>>]
    ELSE IF ReadOutcome(fsys, perms, file_path) # "ok"
    THEN [fs |-> fsys, outcome |-> "read_error", wrote |-> <<>>]
    ELSE LET content == fsys[file_path]
             fixed_content == fix(file_path, content, issues, FALSE, NoAnswer)
         IN  IF fixed_content = content
             THEN [fs |-> fsys, outcome |-> "unchanged", wrote |-> <<>>]
             ELSE IF Perm(perms, file_path) # "rw"
             THEN [fs |-> fsys, outcome |-> "write_error", wrote |-> <<>>]
             ELSE [fs |-> [fsys EXCEPT ![file_path] = fixed_content],
                   outcome |-> "written",
                   wrote |-> <<[file |-> file_path, before |-> content,
                                after |-> fixed_content]>>]
InitAudit ==
    /\ fs = StepsDisk
    /\ perm \in [DOMAIN StepsDisk -> {"rw", "none"}]
    /\ pc = "idle"
    /\ auto_fix = FALSE
    /\ files = <<>>
    /\ idx = 1
    /\ results = InitResults(<<>>)
    /\ files_to_fix = <<>>
    /\ fix_results = NoFixResults
    /\ calls = <<>>
    /\ log = <<>>
    /\ fs0 = StepsDisk
    /\ budget = 1
    /\ vf = <<>>
    /\ frame = <<>>
\* api.py:960-971, a request to an audit endpoint, with or without apply_fixes
AuditStart ==
    /\ pc = "idle"
    /\ budget > 0
    /\ \E apply_fixes \in BOOLEAN, order \in Orders(scan(fs, perm, Root)) :
        /\ auto_fix' = apply_fixes
        /\ files' = IF apply_fixes THEN order ELSE <<>>
    /\ idx' = 1
    /\ pc' = "audit"
    /\ budget' = budget - 1
    /\ UNCHANGED <<fs, perm, results, files_to_fix, fix_results, calls, log, fs0, vf, frame>>
\* api.py:972-984, one turn of the loop
AuditFixStep ==
    /\ pc = "audit"
    /\ idx <= Len(files)
    /\ \E r \in {AuditFixFile(fs, perm, files[idx])} :
        /\ fs' = r.fs
        /\ frame' = frame \o r.wrote
        /\ log' = Append(log, Event("audit", files[idx], r.outcome))
    /\ calls' = Append(calls, Call(files[idx], fs, perm, analyze(files[idx], fs, perm)))
    /\ idx' = idx + 1
    /\ UNCHANGED <<perm, pc, auto_fix, files, results, files_to_fix, fix_results, fs0,
                   budget, vf>>
\* api.py:986 on, the loop is over
AuditEnd ==
    /\ pc = "audit"
    /\ idx > Len(files)
    /\ pc' = "done"
    /\ UNCHANGED <<fs, perm, auto_fix, files, idx, results, files_to_fix, fix_results,
                   calls, log, fs0, budget, vf, frame>>
NextAudit == AuditStart \/ AuditFixStep \/ AuditEnd
SpecAudit == InitAudit /\ [][NextAudit]_vars

\* C27: on every path that writes what Fixer.fix returned to a file, the
\* write is made only after validate_fix has accepted the candidate: here for
\* the writes of the audit endpoints (C21 has those of AutoFixAgent).
C27_WriteAfterValidation ==
    \A i \in 1..Len(frame) : validate_fix(frame[i].before, frame[i].after)

-----------------------------------------------------------------------------
(* api.py: zip_auto_fix, the run in a worker thread and the 60 s timeout *)

\* api.py:332, the request has extracted the archive and made the agent
InitTimeout ==
    /\ fs = RerunDisk
    /\ perm = [p \in DOMAIN RerunDisk |-> "rw"]
    /\ pc = "idle"
    /\ auto_fix = FALSE
    /\ files = <<>>
    /\ idx = 1
    /\ results = InitResults(<<>>)
    /\ files_to_fix = <<>>
    /\ fix_results = NoFixResults
    /\ calls = <<>>
    /\ log = <<>>
    /\ fs0 = RerunDisk
    /\ budget = 1
    /\ vf = <<>>
    /\ frame = [handler |-> "awaiting", mark |-> 0]
\* api.py:337-340 and 362-365, asyncio.wait_for gives up after 60 s while the
\* thread of asyncio.to_thread is in agent.run; api.py:367-368 raises the 408
TimeoutFires ==
    /\ frame.handler = "awaiting"
    /\ pc \in {"scan", "fix"}
    /\ frame' = [handler |-> "timed_out", mark |-> Len(log)]
    /\ UNCHANGED <<fs, perm, pc, auto_fix, files, idx, results, files_to_fix, fix_results,
                   calls, log, fs0, budget, vf>>
\* api.py:341 and 366, agent.run returned in time
RunReturned ==
    /\ frame.handler = "awaiting"
    /\ pc = "done"
    /\ frame' = [handler |-> "finished", mark |-> Len(log)]
    /\ UNCHANGED <<fs, perm, pc, auto_fix, files, idx, results, files_to_fix, fix_results,
                   calls, log, fs0, budget, vf>>
\* api.py:494-497, shutil.rmtree(temp_dir, ignore_errors=True) removes one
\* more file of the directory
RemoveOne ==
    /\ frame.handler \in {"timed_out", "finished"}
    /\ \E f \in DOMAIN fs : fs' = [p \in DOMAIN fs \ {f} |-> fs[p]]
    /\ UNCHANGED <<perm, pc, auto_fix, files, idx, results, files_to_fix, fix_results,
                   calls, log, fs0, budget, vf, frame>>
\* api.py:497, rmtree is over and the response leaves: 408 after a timeout
Answered ==
    /\ frame.handler \in {"timed_out", "finished"}
    /\ DOMAIN fs = {}
    /\ frame' = [frame EXCEPT !.handler = IF @ = "timed_out" THEN "answered_408"
                                          ELSE "answered_200"]
    /\ UNCHANGED <<fs, perm, pc, auto_fix, files, idx, results, files_to_fix, fix_results,
                   calls, log, fs0, budget, vf>>
NextTimeout ==
    \/ RunEmpty \/ ScanStep \/ ScanEnd \/ FixNext \/ FixEnd
    \/ TimeoutFires \/ RunReturned \/ RemoveOne \/ Answered
SpecTimeout == InitTimeout /\ [][NextTimeout]_vars

\* C28: once the timeout of zip_auto_fix has fired, the run in the worker
\* thread opens no file any more: no turn of its scan or fix loop is
\* interleaved with, or follows, the removal of the temporary directory.
C28_NoStepAfterTimeout ==
    frame.handler \in {"timed_out", "answered_408"} => Len(log) = frame.mark

-----------------------------------------------------------------------------
(* api.py: the endpoints that clone with a temporary SSH key *)

MaxRequests == 3
\* api.py:148-155, 624-633, 778-787, 1197-1204, 1403-1410, 1662-1669
KeyEndpoints ==
    {"repo_auto_fix", "private_repo_organize", "private_repo_ssh",
     "audit_private_repo", "audit_quality", "code_review"}
\* the key a request carries
KeyTexts == {<<"KEY", " ", "A">>, <<"KEY", " ", "B">>}
\* tempfile.mkstemp(suffix='_key'): a path no earlier request was given
KeyPath(n) == [dirs |-> <<<<"tmp">>>>, name |-> <<"tmp", <<"a", "b", "c", "d">>[n], "_key">>]
NoRequest == [endpoint |-> "none", key_path |-> KeyPath(1), status |-> 0]
InitKeys ==
    /\ fs = <<>>
    /\ perm = <<>>
    /\ pc = "idle"
    /\ auto_fix = FALSE
    /\ files = <<>>
    /\ idx = 1
    /\ results = InitResults(<<>>)
    /\ files_to_fix = <<>>
    /\ fix_results = NoFixResults
    /\ calls = <<>>
    /\ log = <<>>
    /\ fs0 = <<>>
    /\ budget = MaxRequests
    /\ vf = "unset"
    /\ frame = NoRequest
\* api.py:147-155 (repo_auto_fix) and 1660-1669 (code_review): the request
\* carries a key; it is written to a new file and GIT_SSH_COMMAND (vf) names
\* that file
KeyRequest ==
    /\ pc = "idle"
    /\ budget > 0
    /\ \E endpoint \in KeyEndpoints, ssh_key \in KeyTexts :
        /\ fs' = (KeyPath(budget) :> ssh_key) @@ fs
        /\ frame' = [endpoint |-> endpoint, key_path |-> KeyPath(budget), status |-> 0]
    /\ vf' = KeyPath(budget)
    /\ pc' = "clone"
    /\ budget' = budget - 1
    /\ UNCHANGED <<perm, auto_fix, files, idx, results, files_to_fix, fix_results, calls,
                   log, fs0>>
\* api.py:1692-1698, code_review removes the key right after the clone
KeyCleanup(fsys, key_path) == [p \in DOMAIN fsys \ {key_path} |-> fsys[p]]
\* api.py:1688 (code_review) and 176 (repo_auto_fix), Repo.clone_from returns
\* or raises
Clone ==
    /\ pc = "clone"
    /\ \E outcome \in {"ok", "raise"} :
        IF outcome = "raise"
        THEN /\ pc' = "finally"
             /\ frame' = [frame EXCEPT !.status = 500]
             /\ UNCHANGED <<fs, vf>>
        ELSE /\ pc' = "work"
             /\ UNCHANGED frame
             /\ IF frame.endpoint = "code_review"
                THEN /\ vf' = "unset"
                     /\ fs' = KeyCleanup(fs, frame.key_path)
                ELSE UNCHANGED <<fs, vf>>
    /\ UNCHANGED <<perm, auto_fix, files, idx, results, files_to_fix, fix_results, calls,
                   log, fs0, budget>>
\* the rest of the handler returns its answer or raises
Work ==
    /\ pc = "work"
    /\ \E status \in {200, 500} : frame' = [frame EXCEPT !.status = status]
    /\ pc' = "finally"
    /\ UNCHANGED <<fs, perm, auto_fix, files, idx, results, files_to_fix, fix_results,
                   calls, log, fs0, budget, vf>>
\* api.py:259-269: the finally block of repo_auto_fix (and of the four
\* endpoints written like it) unlinks the key and deletes the variable;
\* api.py:1774-1776: the one of code_review removes temp_dir only
Finally ==
    /\ pc = "finally"
    /\ IF frame.endpoint = "code_review"
       THEN UNCHANGED <<fs, vf>>
       ELSE /\ fs' = KeyCleanup(fs, frame.key_path)
            /\ vf' = "unset"
    /\ pc' = "answered"
    /\ log' = Append(log, [op |-> "answer", endpoint |-> frame.endpoint,
                           status |-> frame.status])
    /\ UNCHANGED <<perm, auto_fix, files, idx, results, files_to_fix, fix_results, calls,
                   fs0, budget, frame>>
\* the server takes the next request
NextRequest ==
    /\ pc = "answered"
    /\ pc' = "idle"
    /\ UNCHANGED <<fs, perm, auto_fix, files, idx, results, files_to_fix, fix_results,
                   calls, log, fs0, budget, vf, frame>>
NextKeys == KeyRequest \/ Clone \/ Work \/ Finally \/ NextRequest
SpecKeys == InitKeys /\ [][NextKeys]_vars

\* C29: when a request that wrote a temporary key file and set
\* GIT_SSH_COMMAND has been answered, on whatever path, the key file is
\* deleted and the variable is unset.
C29_KeyRemovedOnExit ==
    pc = "answered" =>
        /\ frame.key_path \notin DOMAIN fs
        /\ vf = "unset"

-----------------------------------------------------------------------------
(* the files the scan loop passes over *)

MigrationFile == [dirs |-> <<>>, name |-> <<"migration", "_tool", ".", "py">>]
LargeFile     == [dirs |-> <<>>, name |-> <<"large", ".", "py">>]
BinaryFile    == [dirs |-> <<>>, name |-> <<"binary", ".", "py">>]
\* three files the scan loop passes over, each with text analyze would
\* report, and one it analyzes
SkipDisk ==
    (MigrationFile :> <<"if", " ", "x", " ", "=", "=", " ", "None", ":", "\n", " ", " ", " ", " ", "pass">>)
    @@ (LargeFile :> <<"if", " ", "x", " ", "=", "=", " ", "None", ":", "\n", "<x*500000>">>)
    @@ (BinaryFile :> <<"x", " ", "=", " ", "eval", "(", "y", ")", "\n", "<0xff>">>)
    @@ (GoodFile :> <<"if", " ", "x", " ", "=", "=", " ", "None", ":", "\n", " ", " ", " ", " ", "pass">>)
InitSkip ==
    /\ fs = SkipDisk
    /\ perm = [p \in DOMAIN SkipDisk |-> "rw"]
    /\ pc = "idle"
    /\ auto_fix = FALSE
    /\ files = <<>>
    /\ idx = 1
    /\ results = InitResults(<<>>)
    /\ files_to_fix = <<>>
    /\ fix_results = NoFixResults
    /\ calls = <<>>
    /\ log = <<>>
    /\ fs0 = SkipDisk
    /\ budget = 1
    /\ vf = <<>>
    /\ frame = <<>>
SpecSkip == InitSkip /\ [][NextSteps]_vars

\* agent.py:58-71, the scan loop passes over the file
Skipped(f) ==
    \/ IsMigration(f)
    \/ StrLen(fs0[f]) > 500000
    \/ ~Decodes(fs0[f])
\* C30: a file the scan loop passes over is never handed to analyze, has no
\* entry in issues_found, is not in the fix loop's list and keeps its content
\* in fix mode, and it is counted in scanned_files.
C30_SkippedUntouched ==
    \A f \in DOMAIN fs0 :
        Skipped(f) =>
            /\ \A c \in 1..Len(calls) : calls[c].file # f
            /\ \A k \in 1..Len(results.issues_found) :
                results.issues_found[k].file # PathStr(f)
            /\ \A k \in 1..Len(files_to_fix) : files_to_fix[k] # PathStr(f)
            /\ \A i \in 1..Len(log) : log[i].file = f => log[i].op = "scan"
            /\ fs[f] = fs0[f]
            /\ pc # "idle" =>
                /\ \E k \in 1..Len(files) : files[k] = f
                /\ \E k \in 1..Len(results.files_list) : results.files_list[k] = PathStr(f)
                /\ results.scanned_files = Len(files)
\* a fix-mode run has passed over a file of each sort, fixed the fourth and
\* returned
C30_Witness ==
    /\ pc = "done" /\ auto_fix
    /\ \E i \in 1..Len(log) : log[i] = Event("scan", MigrationFile, "skipped")
    /\ \E i \in 1..Len(log) : log[i] = Event("scan", LargeFile, "too_large")
    /\ \E i \in 1..Len(log) : log[i] = Event("scan", BinaryFile, "read_error")
    /\ \E i \in 1..Len(log) : log[i] = Event("write", GoodFile, "ok")
    /\ results.scanned_files = 4
    /\ results.files_fixed = 1

=============================================================================
